---- MODULE Spec2Model ----
(***************************************************************************)
(* peek: a directory-listing CLI (Go).  One run of main() is modelled as a *)
(* state machine: parse arguments, read the target directory, classify and *)
(* filter the entries, sort, query the terminal, render, exit.             *)
(*                                                                         *)
(* Go strings are modelled as sequences of bytes (integers 0..255), so     *)
(* that byte indices, rune boundaries and display widths are distinct      *)
(* notions, as they are in the code.  Text that the program only formats   *)
(* and prints (sizes, counts, footers) is modelled as TLA+ strings.        *)
(*                                                                         *)
(* File sizes are int64 in the code.  TLC integers are 32 bits wide, so a  *)
(* size is modelled as the sequence of its base-1024 digits, least         *)
(* significant first, without leading zero digits (0 is << >>).            *)
(***************************************************************************)
EXTENDS Integers, Sequences, FiniteSets, TLC

VARIABLES
    pc,         \* position of main(): "parse", "read", "classify", ...
    args,       \* os.Args[1:], each argument a byte sequence
    dirents,    \* what os.ReadDir(target) returns for a readable target
    showAll, filesOnly, target,
    dirs, files,
    width,      \* terminal width used by the layout
    stdout, stderr, exitCode,
    reads,      \* the calls made so far: os.ReadDir(target) (and its path,
                \* and whether it failed), e.Info(), os.ReadDir of a listed
                \* directory, term.GetSize
    hsIn, hsOut,        \* humanSize harness: argument and result
    trIn, trMax, trOut, \* truncate harness: arguments and result
    lay,        \* layout harness: a terminal width and the widths computed
    cap,        \* height-aware variant: the lists, the height, the output
    env,        \* font variant: whether APPDATA is set and the config exists
    config,     \* font variant: the size line of alacritty.toml
    before,     \* font variant: the size line before any run started
    runs,       \* font variant: the locals of each running main()
    writes      \* font variant: the writeFontSize calls made so far

vars == <<pc, args, dirents, showAll, filesOnly, target, dirs, files, width,
          stdout, stderr, exitCode, reads, hsIn, hsOut, trIn, trMax, trOut,
          lay, cap, env, config, before, runs, writes>>

\* The variables of the other variants of main(), which a run of this
\* variant leaves alone.
variantVars == <<lay, cap, env, config, before, runs, writes>>

(***************************************************************************)
(* Bounds of the model.                                                    *)
(***************************************************************************)
MaxArgs == 2        \* number of command-line arguments
MaxEntries == 2     \* number of entries in the target directory
MaxTruncLimit == 9  \* largest limit handed to truncate in its harness

(***************************************************************************)
(* Program constants.                                                      *)
(***************************************************************************)
maxNameLen == 80

Min(a, b) == IF a < b THEN a ELSE b
Max(a, b) == IF a > b THEN a ELSE b

(***************************************************************************)
(* Byte strings.                                                           *)
(***************************************************************************)
\* strings.HasPrefix(s, p)
HasPrefix(s, p) == Len(s) >= Len(p) /\ SubSeq(s, 1, Len(p)) = p

\* The rune that starts at byte index i of s (1-based) and its size in
\* bytes, as Go's "for i, r := range s" decodes UTF-8: an invalid or
\* truncated encoding yields U+FFFD (65533) and consumes one byte.
DecodeRune(s, i) ==
    LET b0 == s[i]
        cont(k) == i + k <= Len(s) /\ s[i + k] >= 128 /\ s[i + k] <= 191
        low(k) == s[i + k] - 128
    IN  IF b0 < 128 THEN [r |-> b0, size |-> 1]
        ELSE IF b0 >= 194 /\ b0 <= 223 /\ cont(1)
            THEN [r |-> (b0 - 192) * 64 + low(1), size |-> 2]
        ELSE IF /\ b0 >= 224 /\ b0 <= 239 /\ cont(1) /\ cont(2)
                /\ (b0 = 224 => s[i + 1] >= 160)
                /\ (b0 = 237 => s[i + 1] <= 159)
            THEN [r |-> (b0 - 224) * 4096 + low(1) * 64 + low(2), size |-> 3]
        ELSE IF /\ b0 >= 240 /\ b0 <= 244 /\ cont(1) /\ cont(2) /\ cont(3)
                /\ (b0 = 240 => s[i + 1] >= 144)
                /\ (b0 = 244 => s[i + 1] <= 143)
            THEN [r |-> (b0 - 240) * 262144 + low(1) * 4096 + low(2) * 64 + low(3),
                  size |-> 4]
        ELSE [r |-> 65533, size |-> 1]

\* runewidth.RuneWidth(r) under the default (not East Asian) condition:
\* 0 for control and combining runes, 2 for wide runes, 1 otherwise.
RuneWidth(r) ==
    IF r < 32 \/ (r >= 127 /\ r <= 159) \/ r = 173 THEN 0
    ELSE IF r < 768 THEN 1
    ELSE IF (r >= 768 /\ r <= 879) \/ (r >= 8203 /\ r <= 8207) THEN 0
    ELSE IF \/ (r >= 4352 /\ r <= 4447)
            \/ (r >= 11904 /\ r <= 12350)
            \/ (r >= 12353 /\ r <= 19903)
            \/ (r >= 19968 /\ r <= 42191)
            \/ (r >= 44032 /\ r <= 55203)
            \/ (r >= 63744 /\ r <= 64255)
            \/ (r >= 65281 /\ r <= 65376)
            \/ (r >= 127744 /\ r <= 128591)
        THEN 2
    ELSE 1

\* runewidth.StringWidth(s): the sum of the widths of the runes of s.
RECURSIVE WidthFrom(_, _)
WidthFrom(s, i) ==
    IF i > Len(s) THEN 0
    ELSE LET d == DecodeRune(s, i)
         IN  RuneWidth(d.r) + WidthFrom(s, i + d.size)

StringWidth(s) == WidthFrom(s, 1)

\* "…" (U+2026) in UTF-8
Ellipsis == <<226, 128, 166>>

(***************************************************************************)
(* truncate(s, max)                                                        *)
(***************************************************************************)
\* A truncate that counts bytes instead of display columns.
truncate_Bytes(s, max) ==
    LET m == IF max < 4 THEN 4 ELSE max
    IN  IF Len(s) <= m THEN s ELSE SubSeq(s, 1, m - 1) \o Ellipsis

\* The rune loop of truncate: i is the byte index of the next rune, w the
\* width of the runes before it.
RECURSIVE truncateLoop(_, _, _, _)
truncateLoop(s, max, i, w) ==
    IF i > Len(s) THEN s
    ELSE LET d == DecodeRune(s, i)
             rw == RuneWidth(d.r)
         IN  IF w + rw > max - 1
             THEN SubSeq(s, 1, i - 1) \o Ellipsis
             ELSE truncateLoop(s, max, i + d.size, w + rw)

truncate(s, max) ==
    LET m == IF max < 4 THEN 4 ELSE max
    IN  IF StringWidth(s) <= m THEN s ELSE truncateLoop(s, m, 1, 0)

(***************************************************************************)
(* humanSize(b)                                                            *)
(***************************************************************************)
units == <<"B", "K", "M", "G", "T">>

RECURSIVE Pow2(_)
Pow2(k) == IF k = 0 THEN 1 ELSE 2 * Pow2(k - 1)

\* Integer value of a short little-endian base-1024 digit sequence.
RECURSIVE DigitsValue(_)
DigitsValue(ds) == IF ds = << >> THEN 0 ELSE Head(ds) + 1024 * DigitsValue(Tail(ds))

\* Number of bits of the size b (b # 0).
BitLen(b) ==
    LET top == b[Len(b)]
    IN  10 * (Len(b) - 1) + (CHOOSE k \in 1..10 : Pow2(k - 1) <= top /\ top < Pow2(k))

\* Adds a carry into a little-endian digit sequence.
RECURSIVE Carry(_, _)
Carry(ds, c) ==
    IF ds = << >> THEN (IF c = 0 THEN << >> ELSE <<c>>)
    ELSE LET x == Head(ds) + c
         IN  <<x % 1024>> \o Carry(Tail(ds), x \div 1024)

\* float64(b): an int64 of more than 53 bits is rounded to 53 significant
\* bits, to nearest, ties to even.  An int64 has at most 63 bits, so the
\* bits dropped (at most 10) all lie in the lowest digit.
Float64(b) ==
    IF b = << >> \/ BitLen(b) <= 53 THEN b
    ELSE LET k == BitLen(b) - 53
             p == Pow2(k)
             q == b[1] \div p
             rem == b[1] % p
             lsb == IF k = 10 THEN b[2] % 2 ELSE q % 2
             up == rem > p \div 2 \/ (rem = p \div 2 /\ lsb = 1)
         IN  Carry(<<q * p>> \o Tail(b), IF up THEN p ELSE 0)

\* A unit index capped one unit too early.
unitIndex_CapG(b) == Min(Len(Float64(b)) - 1, Len(units) - 2)

\* i := int(math.Log(float64(b)) / math.Log(1024)), capped at len(units)-1.
\* floor(log_1024 x) is the number of base-1024 digits of x, less one; the
\* float64 quotient of the two logarithms is exactly k at x = 1024^k
\* (k = 1..4) and is below k for x = 1024^k - 1, so the conversion to int
\* yields that floor for every size below 1024^5, and at least 4 above.
unitIndex(b) == Min(Len(Float64(b)) - 1, Len(units) - 1)

\* Multiplies a little-endian base-1024 fraction by 10: the result has one
\* more digit, which is the integer part of the product.
RECURSIVE Mul10(_, _)
Mul10(ds, c) ==
    IF ds = << >> THEN <<c>>
    ELSE LET x == 10 * Head(ds) + c
         IN  <<x % 1024>> \o Mul10(Tail(ds), x \div 1024)

\* val in tenths as fmt's %.1f rounds it: to nearest, ties to even (val is
\* a dyadic rational here, so the tie is exact).  whole is the integer part
\* of val, frac the digits of its fractional part.
Tenths(whole, frac) ==
    LET m == Mul10(frac, 0)
        n == Len(frac)
        t0 == 10 * whole + m[n + 1]
        lowNonzero == \E k \in 1..(n - 1) : m[k] # 0
        up == m[n] > 512 \/ (m[n] = 512 /\ (lowNonzero \/ t0 % 2 = 1))
    IN  t0 + (IF up THEN 1 ELSE 0)

\* fmt.Sprintf("%.1f", val)
FormatF1(whole, frac) ==
    LET t == Tenths(whole, frac)
    IN  ToString(t \div 10) \o "." \o ToString(t % 10)

\* int(val), val = float64(b) / 1024^i
sizeWhole(b) ==
    LET fb == Float64(b)
    IN  DigitsValue(SubSeq(fb, unitIndex(b) + 1, Len(fb)))

\* the fractional part of val, as base-1024 digits
sizeFrac(b) == SubSeq(Float64(b), 1, unitIndex(b))

humanSize(b) ==
    IF b = << >> THEN "0 B"
    ELSE LET i == unitIndex(b)
         IN  IF i = 0 THEN ToString(b[1]) \o " B"
             ELSE IF sizeWhole(b) >= 10
                 THEN ToString(sizeWhole(b)) \o " " \o units[i + 1]
             ELSE FormatF1(sizeWhole(b), sizeFrac(b)) \o " " \o units[i + 1]

(***************************************************************************)
(* Command line and file system: the inputs of a run.                      *)
(***************************************************************************)
ArgA == <<45, 97>>                              \* "-a"
ArgAll == <<45, 45, 97, 108, 108>>              \* "--all"
ArgF == <<45, 102>>                             \* "-f"
ArgFiles == <<45, 45, 102, 105, 108, 101, 115>> \* "--files"
ArgH == <<45, 104>>                             \* "-h"
ArgHelp == <<45, 45, 104, 101, 108, 112>>       \* "--help"
ArgAF == <<45, 97, 102>>                        \* "-af", not an option of peek
PathDot == <<46>>                               \* "."
PathD == <<100>>                                \* "d", a directory
PathMissing == <<110, 111>>                     \* "no", which does not exist

ArgSet == {ArgA, ArgAll, ArgF, ArgFiles, ArgH, ArgHelp, ArgAF, PathD, PathMissing}

RECURSIVE SeqsUpTo(_, _)
SeqsUpTo(S, n) ==
    IF n = 0 THEN {<< >>}
    ELSE LET shorter == SeqsUpTo(S, n - 1)
         IN  shorter \cup {Append(q, x) : q \in shorter, x \in S}

\* A directory entry as os.ReadDir and the later calls on it behave:
\*   typ         e.Type(): "dir", "file" or "symlink"
\*   infoOK      e.Info() succeeds
\*   size        info.Size()
\*   link        for a symlink, what EvalSymlinks and Stat find: "dir",
\*               "file", "evalfail" (broken link), "statfail"
\*   childrenOK  os.ReadDir of the entry succeeds
\*   children    the entries os.ReadDir of it returns
DirEnt(name, typ, infoOK, size, link, childrenOK, children) ==
    [name |-> name, typ |-> typ, infoOK |-> infoOK, size |-> size, link |-> link,
     childrenOK |-> childrenOK, children |-> children]

\* A child of a listed directory: whether its name starts with a dot, what
\* se.IsDir() answers, whether it is a symlink, and whether it is a
\* directory once a symlink is followed.
Child(dot, isDir) == [dot |-> dot, isDir |-> isDir, sym |-> FALSE, toDir |-> isDir]

\* A child that is a symlink: se.IsDir() is false whatever it points to.
LinkChild(dot, toDir) == [dot |-> dot, isDir |-> FALSE, sym |-> TRUE, toDir |-> toDir]

\* The entries a directory of the model may hold, in the order of their
\* names (os.ReadDir returns the entries sorted by file name).
Catalogue == <<
    \* ".git", a hidden directory with a hidden file and a directory
    DirEnt(<<46, 103, 105, 116>>, "dir", TRUE, <<0, 4>>, "none", TRUE,
           <<Child(TRUE, FALSE), Child(FALSE, TRUE)>>),
    \* ".rc", a hidden file of 12 bytes
    DirEnt(<<46, 114, 99>>, "file", TRUE, <<12>>, "none", FALSE, << >>),
    \* "Docs", a directory with one directory, two files and a hidden file
    DirEnt(<<68, 111, 99, 115>>, "dir", TRUE, <<0, 4>>, "none", TRUE,
           <<Child(TRUE, FALSE), Child(FALSE, TRUE), Child(FALSE, FALSE),
             Child(FALSE, FALSE)>>),
    \* "Tmp", a directory that cannot be read
    DirEnt(<<84, 109, 112>>, "dir", TRUE, <<0, 4>>, "none", FALSE, << >>),
    \* "a.txt", a file of 1024 bytes
    DirEnt(<<97, 46, 116, 120, 116>>, "file", TRUE, <<0, 1>>, "none", FALSE, << >>),
    \* "bad", a symlink of 12 bytes whose target is gone
    DirEnt(<<98, 97, 100>>, "symlink", TRUE, <<12>>, "evalfail", FALSE, << >>),
    \* "gone", a file removed before Info() is called
    DirEnt(<<103, 111, 110, 101>>, "file", FALSE, <<5>>, "none", FALSE, << >>),
    \* "lnk", a symlink to a directory that holds one file and a symlink to
    \* a directory
    DirEnt(<<108, 110, 107>>, "symlink", TRUE, <<3>>, "dir", TRUE,
           <<Child(FALSE, FALSE), LinkChild(FALSE, TRUE)>>),
    \* "st", a symlink that resolves but cannot be stat'ed
    DirEnt(<<115, 116>>, "symlink", TRUE, <<2>>, "statfail", FALSE, << >>),
    \* a file of 9.5 G named by twelve wide runes (U+4E16)
    DirEnt(<<228, 184, 150, 228, 184, 150, 228, 184, 150, 228, 184, 150,
             228, 184, 150, 228, 184, 150, 228, 184, 150, 228, 184, 150,
             228, 184, 150, 228, 184, 150, 228, 184, 150, 228, 184, 150>>,
           "file", TRUE, <<0, 0, 512, 9>>, "none", FALSE, << >>)
>>

\* The sub-sequence of Catalogue at the indices of the set I.
RECURSIVE Pick(_, _)
Pick(I, k) ==
    IF k > Len(Catalogue) THEN << >>
    ELSE (IF k \in I THEN <<Catalogue[k]>> ELSE << >>) \o Pick(I, k + 1)

DirContents ==
    {Pick(I, 1) : I \in {J \in SUBSET (1..Len(Catalogue)) : Cardinality(J) <= MaxEntries}}

\* What term.GetSize may answer: an error, or a width.
SizeAnswers == {[err |-> TRUE, w |-> 0], [err |-> FALSE, w |-> 0],
                [err |-> FALSE, w |-> 1], [err |-> FALSE, w |-> 47],
                [err |-> FALSE, w |-> 200]}

Line(text) == [kind |-> "line", text |-> text]

(***************************************************************************)
(* main(): argument parsing                                                *)
(***************************************************************************)
\* A loop that honours -h/--help only as the first argument.
RECURSIVE parseArgs_HelpFirstOnly(_, _, _)
parseArgs_HelpFirstOnly(as, k, st) ==
    IF k > Len(as) THEN st
    ELSE LET arg == as[k]
         IN  IF arg = ArgA \/ arg = ArgAll
                 THEN parseArgs_HelpFirstOnly(as, k + 1, [st EXCEPT !.showAll = TRUE])
             ELSE IF arg = ArgF \/ arg = ArgFiles
                 THEN parseArgs_HelpFirstOnly(as, k + 1, [st EXCEPT !.filesOnly = TRUE])
             ELSE IF (arg = ArgH \/ arg = ArgHelp) /\ k = 1
                 THEN [st EXCEPT !.help = TRUE]
             ELSE IF ~HasPrefix(arg, <<45>>)
                 THEN parseArgs_HelpFirstOnly(as, k + 1, [st EXCEPT !.target = arg])
             ELSE parseArgs_HelpFirstOnly(as, k + 1, st)

\* A loop that takes every argument that is not an option as the target.
RECURSIVE parseArgs_AnyTarget(_, _, _)
parseArgs_AnyTarget(as, k, st) ==
    IF k > Len(as) THEN st
    ELSE LET arg == as[k]
         IN  IF arg = ArgA \/ arg = ArgAll
                 THEN parseArgs_AnyTarget(as, k + 1, [st EXCEPT !.showAll = TRUE])
             ELSE IF arg = ArgF \/ arg = ArgFiles
                 THEN parseArgs_AnyTarget(as, k + 1, [st EXCEPT !.filesOnly = TRUE])
             ELSE IF arg = ArgH \/ arg = ArgHelp
                 THEN [st EXCEPT !.help = TRUE]
             ELSE parseArgs_AnyTarget(as, k + 1, [st EXCEPT !.target = arg])

\* The loop over os.Args[1:], from argument k on; st holds showAll,
\* filesOnly, target and help (the loop returned at -h/--help).
RECURSIVE parseArgs(_, _, _)
parseArgs(as, k, st) ==
    IF k > Len(as) THEN st
    ELSE LET arg == as[k]
         IN  IF arg = ArgA \/ arg = ArgAll
                 THEN parseArgs(as, k + 1, [st EXCEPT !.showAll = TRUE])
             ELSE IF arg = ArgF \/ arg = ArgFiles
                 THEN parseArgs(as, k + 1, [st EXCEPT !.filesOnly = TRUE])
             ELSE IF arg = ArgH \/ arg = ArgHelp
                 THEN [st EXCEPT !.help = TRUE]
             ELSE IF ~HasPrefix(arg, <<45>>)
                 THEN parseArgs(as, k + 1, [st EXCEPT !.target = arg])
             ELSE parseArgs(as, k + 1, st)

parseStart == [showAll |-> FALSE, filesOnly |-> FALSE, target |-> PathDot, help |-> FALSE]

usage == <<Line("Usage: peek [options] [path]"),
           Line("  -a, --all     show hidden files"),
           Line("  -f, --files   files only"),
           Line("  -h, --help    this message")>>

(***************************************************************************)
(* main(): classification of the entries                                   *)
(***************************************************************************)
\* filepath.Ext(name) without its dot: the text after the last "." of name
RECURSIVE extOf(_, _)
extOf(name, k) ==
    IF k = 0 THEN << >>
    ELSE IF name[k] = 46 THEN SubSeq(name, k + 1, Len(name))
    ELSE extOf(name, k - 1)

\* subDirs and subFiles of a listed directory: the loop over subEntries
RECURSIVE countChildren(_, _, _)
countChildren(cs, all, acc) ==
    IF cs = << >> THEN acc
    ELSE LET se == Head(cs)
         IN  IF ~all /\ se.dot THEN countChildren(Tail(cs), all, acc)
             ELSE IF se.isDir
                 THEN countChildren(Tail(cs), all, [acc EXCEPT !.subDirs = @ + 1])
             ELSE countChildren(Tail(cs), all, [acc EXCEPT !.subFiles = @ + 1])

\* The entry record main builds, and the three ways an iteration can end.
entryOf(e, isDir) ==
    [name |-> e.name, isDir |-> isDir, isSym |-> e.typ = "symlink", size |-> e.size,
     dot |-> HasPrefix(e.name, <<46>>),
     ext |-> IF isDir THEN << >> ELSE extOf(e.name, Len(e.name)),
     subDirs |-> 0, subFiles |-> 0]

skipped(n) == [dirs |-> << >>, files |-> << >>, infoCalls |-> n, childReads |-> 0]

asDir(e, it, all) ==
    [dirs |-> <<IF e.childrenOK THEN countChildren(e.children, all, it) ELSE it>>,
     files |-> << >>, infoCalls |-> 1, childReads |-> 1]

asFile(it) == [dirs |-> << >>, files |-> <<it>>, infoCalls |-> 1, childReads |-> 0]

\* isDir after the symlink resolution
resolvedDir(e) ==
    IF e.typ = "symlink" /\ e.link \in {"dir", "file"} THEN e.link = "dir" ELSE e.typ = "dir"

\* An iteration without the hidden-file check.
classifyEntry_ShowsHidden(e, all, fOnly) ==
    LET isDir == resolvedDir(e)
    IN  IF ~e.infoOK THEN skipped(1)
        ELSE IF isDir /\ ~fOnly THEN asDir(e, entryOf(e, isDir), all)
        ELSE IF ~isDir THEN asFile(entryOf(e, isDir))
        ELSE skipped(1)

\* An iteration that lists directories in files-only mode too.
classifyEntry_DirsAlways(e, all, fOnly) ==
    LET isDir == resolvedDir(e)
    IN  IF HasPrefix(e.name, <<46>>) /\ ~all THEN skipped(0)
        ELSE IF ~e.infoOK THEN skipped(1)
        ELSE IF isDir THEN asDir(e, entryOf(e, isDir), all)
        ELSE asFile(entryOf(e, isDir))

\* An iteration that keeps an entry whose Info() failed.
classifyEntry_KeepsInfoErr(e, all, fOnly) ==
    LET isDir == resolvedDir(e)
    IN  IF HasPrefix(e.name, <<46>>) /\ ~all THEN skipped(0)
        ELSE IF isDir /\ ~fOnly THEN asDir(e, entryOf(e, isDir), all)
        ELSE IF ~isDir THEN asFile(entryOf(e, isDir))
        ELSE skipped(1)

\* An iteration that does not follow symlinks: isDir is e.IsDir() alone.
classifyEntry_NoResolve(e, all, fOnly) ==
    LET isDir == e.typ = "dir"
    IN  IF HasPrefix(e.name, <<46>>) /\ ~all THEN skipped(0)
        ELSE IF ~e.infoOK THEN skipped(1)
        ELSE IF isDir /\ ~fOnly THEN asDir(e, entryOf(e, isDir), all)
        ELSE IF ~isDir THEN asFile(entryOf(e, isDir))
        ELSE skipped(1)

\* One iteration of the loop over entries: what it appends to dirs and to
\* files, and the number of child directories it reads.
classifyEntry(e, all, fOnly) ==
    LET isDot == HasPrefix(e.name, <<46>>)
        isDir == resolvedDir(e)
        it == entryOf(e, isDir)
    IN  IF isDot /\ ~all THEN skipped(0)
        ELSE IF ~e.infoOK THEN skipped(1)
        ELSE IF isDir /\ ~fOnly THEN asDir(e, it, all)
        ELSE IF ~isDir THEN asFile(it)
        ELSE skipped(1)

RECURSIVE classifyAll(_, _, _)
classifyAll(es, all, fOnly) ==
    IF es = << >>
    THEN [dirs |-> << >>, files |-> << >>, infoCalls |-> 0, childReads |-> 0]
    ELSE LET h == classifyEntry(Head(es), all, fOnly)
             t == classifyAll(Tail(es), all, fOnly)
         IN  [dirs |-> h.dirs \o t.dirs, files |-> h.files \o t.files,
              infoCalls |-> h.infoCalls + t.infoCalls,
              childReads |-> h.childReads + t.childReads]

(***************************************************************************)
(* main(): sorting                                                         *)
(***************************************************************************)
\* strings.ToLower on the ASCII letters of a name
toLower(s) == [k \in 1..Len(s) |-> IF s[k] >= 65 /\ s[k] <= 90 THEN s[k] + 32 ELSE s[k]]

\* a < b for Go strings: byte-wise lexicographic order
RECURSIVE lessBytes(_, _)
lessBytes(a, b) ==
    IF b = << >> THEN FALSE
    ELSE IF a = << >> THEN TRUE
    ELSE IF Head(a) # Head(b) THEN Head(a) < Head(b)
    ELSE lessBytes(Tail(a), Tail(b))

\* a > b for sizes: more digits, or the same number and greater from the top
RECURSIVE greaterFrom(_, _, _)
greaterFrom(a, b, k) ==
    IF k = 0 THEN FALSE
    ELSE IF a[k] # b[k] THEN a[k] > b[k]
    ELSE greaterFrom(a, b, k - 1)

greaterSize(a, b) ==
    IF Len(a) # Len(b) THEN Len(a) > Len(b) ELSE greaterFrom(a, b, Len(a))

lessByName(x, y) == lessBytes(toLower(x.name), toLower(y.name))
lessBySize(x, y) == greaterSize(x.size, y.size)

Perms(n) == {p \in [1..n -> 1..n] : \A i, j \in 1..n : i # j => p[i] # p[j]}

\* The results sort.Slice may leave: a permutation of items in which no
\* element is followed by one that is less than it (sort.Slice is not
\* stable, so equal elements may end in any order).
sortedByName(items) ==
    {[k \in 1..Len(items) |-> items[p[k]]] : p \in
        {q \in Perms(Len(items)) :
            \A i, j \in 1..Len(items) : i < j => ~lessByName(items[q[j]], items[q[i]])}}

\* A sort of the files by increasing size.
sortedBySize_Increasing(items) ==
    {[k \in 1..Len(items) |-> items[p[k]]] : p \in
        {q \in Perms(Len(items)) :
            \A i, j \in 1..Len(items) : i < j => ~lessBySize(items[q[i]], items[q[j]])}}

sortedBySize(items) ==
    {[k \in 1..Len(items) |-> items[p[k]]] : p \in
        {q \in Perms(Len(items)) :
            \A i, j \in 1..Len(items) : i < j => ~lessBySize(items[q[j]], items[q[i]])}}

(***************************************************************************)
(* Rendering                                                               *)
(***************************************************************************)
\* a / b as Go divides integers: truncated toward zero (b > 0)
quot(a, b) == IF a >= 0 THEN a \div b ELSE -((-a) \div b)

\* The width of formatted ASCII text (counts, sizes) is its length.
textWidth(t) == Len(t)

plural(n, word) == ToString(n) \o " " \o word \o (IF n > 1 THEN "s" ELSE "")

dirSubtitle(subDirs, subFiles) ==
    IF subDirs = 0 /\ subFiles = 0 THEN "empty"
    ELSE IF subDirs > 0 /\ subFiles > 0
        THEN plural(subDirs, "dir") \o ", " \o plural(subFiles, "file")
    ELSE IF subDirs > 0 THEN plural(subDirs, "dir")
    ELSE plural(subFiles, "file")

\* The two lines printFooter prints.
printFooter(dirCount, fileCount) ==
    LET parts == IF dirCount > 0 /\ fileCount > 0
                     THEN plural(dirCount, "dir") \o "  ·  " \o plural(fileCount, "file")
                 ELSE IF dirCount > 0 THEN plural(dirCount, "dir")
                 ELSE IF fileCount > 0 THEN plural(fileCount, "file")
                 ELSE ""
    IN  <<Line("  " \o parts), Line("")>>

\* One row of a panel: prefix, name, " ", leader dots, " ", meta.
row(prefix, it, lineWidth, meta) ==
    LET nameLimit == Max(lineWidth - textWidth(meta) - 5, 8)
        name == truncate(it.name, nameLimit)
        dots == Max(lineWidth - StringWidth(name) - textWidth(meta) - 2, 3)
    IN  [prefix |-> prefix, name |-> name,
         style |-> IF it.isSym THEN "sym" ELSE IF it.dot THEN "dot" ELSE "plain",
         leader |-> dots - 2, meta |-> meta]

buildDirContent(ds, lineWidth) ==
    [k \in 1..Len(ds) |-> row("▸ ", ds[k], lineWidth, dirSubtitle(ds[k].subDirs, ds[k].subFiles))]

buildFileContent(fs, lineWidth) ==
    [k \in 1..Len(fs) |-> row("  ", fs[k], lineWidth, humanSize(fs[k].size))]

\* A rendered box: lipgloss box of the given Width holding the header
\* (title and a rule of lineWidth columns) and the rows.
panel(title, boxWidth, lineWidth, rows) ==
    [kind |-> "panel", title |-> title, boxWidth |-> boxWidth, rule |-> lineWidth,
     rows |-> rows]

\* wideInner and wideMax of the single-panel modes
wideInner(w) == Max(w - 2, 20)
wideMax(w) == Min(wideInner(w) - 4, maxNameLen)

\* An inner width without its minimum of 20.
innerW_NoFloor(w) == quot(w - 2, 2) - 2

\* innerW and nameMax of the two-panel mode
innerW(w) == Max(quot(w - 2, 2) - 2, 20)
nameMax(w) == Min(innerW(w) - 4, maxNameLen)

\* What each mode prints: blank line, panel(s), blank line, footer.  (main
\* builds the two half-width contents before it chooses the mode; in the
\* single-panel modes they are discarded and the content is built again
\* for the full width.)
filesPanelOutput(ds, fs, w) ==
    <<Line(""), panel("FILES", wideInner(w), wideMax(w), buildFileContent(fs, wideMax(w))),
      Line("")>> \o printFooter(Len(ds), Len(fs))

dirsPanelOutput(ds, fs, w) ==
    <<Line(""), panel("DIRS", wideInner(w), wideMax(w), buildDirContent(ds, wideMax(w))),
      Line("")>> \o printFooter(Len(ds), Len(fs))

\* Two panels with the files on the left.
twoPanelOutput_Swapped(ds, fs, w) ==
    <<Line(""),
      [kind |-> "joined",
       left |-> panel("FILES", innerW(w), nameMax(w), buildFileContent(fs, nameMax(w))),
       gap |-> 2,
       right |-> panel("DIRS", innerW(w), nameMax(w), buildDirContent(ds, nameMax(w)))],
      Line("")>> \o printFooter(Len(ds), Len(fs))

twoPanelOutput(ds, fs, w) ==
    <<Line(""),
      [kind |-> "joined",
       left |-> panel("DIRS", innerW(w), nameMax(w), buildDirContent(ds, nameMax(w))),
       gap |-> 2,
       right |-> panel("FILES", innerW(w), nameMax(w), buildFileContent(fs, nameMax(w)))],
      Line("")>> \o printFooter(Len(ds), Len(fs))

(***************************************************************************)
(* A run of main()                                                         *)
(***************************************************************************)
noReads == [target |-> 0, path |-> << >>, failed |-> 0, info |-> 0, child |-> 0, size |-> 0]

harnessIdle == hsIn = << >> /\ hsOut = "" /\ trIn = << >> /\ trMax = 0 /\ trOut = << >>

variantsIdle ==
    /\ lay = << >> /\ cap = << >>
    /\ env = << >> /\ config = << >> /\ before = << >> /\ runs = << >> /\ writes = << >>

Init ==
    /\ pc = "parse"
    /\ args \in SeqsUpTo(ArgSet, MaxArgs)
    /\ dirents = << >>
    /\ showAll = FALSE /\ filesOnly = FALSE /\ target = PathDot
    /\ dirs = << >> /\ files = << >>
    /\ width = 0
    /\ stdout = << >> /\ stderr = << >> /\ exitCode = -1
    /\ reads = noReads
    /\ harnessIdle
    /\ variantsIdle

\* The loop over the arguments; -h/--help prints the usage and returns.
ParseArgs ==
    /\ pc = "parse"
    /\ LET st == parseArgs(args, 1, parseStart)
       IN  /\ showAll' = st.showAll
           /\ filesOnly' = st.filesOnly
           /\ target' = st.target
           /\ IF st.help
              THEN stdout' = stdout \o usage /\ exitCode' = 0 /\ pc' = "done"
              ELSE UNCHANGED <<stdout, exitCode>> /\ pc' = "read"
    /\ UNCHANGED <<args, dirents, dirs, files, width, stderr, reads,
                   hsIn, hsOut, trIn, trMax, trOut>>
    /\ UNCHANGED variantVars

\* A read whose failure is reported but does not end the run.
ReadTarget_Continue ==
    /\ pc = "read"
    /\ \/ /\ reads' = [reads EXCEPT !.target = @ + 1, !.path = target, !.failed = @ + 1]
          /\ stderr' = Append(stderr, Line("error: cannot read directory"))
          /\ pc' = "classify"
          /\ UNCHANGED <<dirents, exitCode>>
       \/ /\ target # PathMissing
          /\ reads' = [reads EXCEPT !.target = @ + 1, !.path = target]
          /\ dirents' \in DirContents
          /\ pc' = "classify"
          /\ UNCHANGED <<stderr, exitCode>>
    /\ UNCHANGED <<args, showAll, filesOnly, target, dirs, files, width, stdout,
                   hsIn, hsOut, trIn, trMax, trOut>>
    /\ UNCHANGED variantVars

\* os.ReadDir(target): fails for a path that does not exist and may fail
\* for any other; on failure the error goes to stderr and the run exits 1.
ReadTarget ==
    /\ pc = "read"
    /\ \/ /\ reads' = [reads EXCEPT !.target = @ + 1, !.path = target, !.failed = @ + 1]
          /\ stderr' = Append(stderr, Line("error: cannot read directory"))
          /\ exitCode' = 1
          /\ pc' = "done"
          /\ UNCHANGED dirents
       \/ /\ target # PathMissing
          /\ reads' = [reads EXCEPT !.target = @ + 1, !.path = target]
          /\ dirents' \in DirContents
          /\ pc' = "classify"
          /\ UNCHANGED <<stderr, exitCode>>
    /\ UNCHANGED <<args, showAll, filesOnly, target, dirs, files, width, stdout,
                   hsIn, hsOut, trIn, trMax, trOut>>
    /\ UNCHANGED variantVars

\* The loop over the entries.
Classify ==
    /\ pc = "classify"
    /\ LET c == classifyAll(dirents, showAll, filesOnly)
       IN  /\ dirs' = c.dirs
           /\ files' = c.files
           /\ reads' = [reads EXCEPT !.info = @ + c.infoCalls,
                                     !.child = @ + c.childReads]
    /\ pc' = "sort"
    /\ UNCHANGED <<args, dirents, showAll, filesOnly, target, width, stdout, stderr,
                   exitCode, hsIn, hsOut, trIn, trMax, trOut>>
    /\ UNCHANGED variantVars

\* sortEntries(dirs) and the sort of files by decreasing size.
Sort ==
    /\ pc = "sort"
    /\ dirs' \in sortedByName(dirs)
    /\ files' \in sortedBySize(files)
    /\ pc' = "sorted"
    /\ UNCHANGED <<args, dirents, showAll, filesOnly, target, width, stdout, stderr,
                   exitCode, reads, hsIn, hsOut, trIn, trMax, trOut>>
    /\ UNCHANGED variantVars

\* An empty listing that prints the footer as well.
PrintEmpty_WithFooter ==
    /\ pc = "sorted"
    /\ Len(dirs) = 0 /\ Len(files) = 0
    /\ stdout' = Append(stdout, Line("  empty")) \o printFooter(Len(dirs), Len(files))
    /\ exitCode' = 0
    /\ pc' = "done"
    /\ UNCHANGED <<args, dirents, showAll, filesOnly, target, dirs, files, width,
                   stderr, reads, hsIn, hsOut, trIn, trMax, trOut>>
    /\ UNCHANGED variantVars

\* Nothing to show: one line, and main returns.
PrintEmpty ==
    /\ pc = "sorted"
    /\ Len(dirs) = 0 /\ Len(files) = 0
    /\ stdout' = Append(stdout, Line("  empty"))
    /\ exitCode' = 0
    /\ pc' = "done"
    /\ UNCHANGED <<args, dirents, showAll, filesOnly, target, dirs, files, width,
                   stderr, reads, hsIn, hsOut, trIn, trMax, trOut>>
    /\ UNCHANGED variantVars

\* term.GetSize: the width is 80 unless a positive width is answered.
QuerySize ==
    /\ pc = "sorted"
    /\ ~(Len(dirs) = 0 /\ Len(files) = 0)
    /\ \E a \in SizeAnswers :
          width' = IF ~a.err /\ a.w > 0 THEN a.w ELSE 80
    /\ reads' = [reads EXCEPT !.size = @ + 1]
    /\ pc' = "render"
    /\ UNCHANGED <<args, dirents, showAll, filesOnly, target, dirs, files, stdout,
                   stderr, exitCode, hsIn, hsOut, trIn, trMax, trOut>>
    /\ UNCHANGED variantVars

\* Single panel: files.
RenderFiles ==
    /\ pc = "render"
    /\ filesOnly \/ Len(dirs) = 0
    /\ stdout' = stdout \o filesPanelOutput(dirs, files, width)
    /\ exitCode' = 0
    /\ pc' = "done"
    /\ UNCHANGED <<args, dirents, showAll, filesOnly, target, dirs, files, width,
                   stderr, reads, hsIn, hsOut, trIn, trMax, trOut>>
    /\ UNCHANGED variantVars

\* Single panel: dirs.
RenderDirs ==
    /\ pc = "render"
    /\ ~(filesOnly \/ Len(dirs) = 0)
    /\ Len(files) = 0
    /\ stdout' = stdout \o dirsPanelOutput(dirs, files, width)
    /\ exitCode' = 0
    /\ pc' = "done"
    /\ UNCHANGED <<args, dirents, showAll, filesOnly, target, dirs, files, width,
                   stderr, reads, hsIn, hsOut, trIn, trMax, trOut>>
    /\ UNCHANGED variantVars

\* Two panels side by side.
RenderTwo ==
    /\ pc = "render"
    /\ ~(filesOnly \/ Len(dirs) = 0)
    /\ Len(files) # 0
    /\ stdout' = stdout \o twoPanelOutput(dirs, files, width)
    /\ exitCode' = 0
    /\ pc' = "done"
    /\ UNCHANGED <<args, dirents, showAll, filesOnly, target, dirs, files, width,
                   stderr, reads, hsIn, hsOut, trIn, trMax, trOut>>
    /\ UNCHANGED variantVars

Next ==
    \/ ParseArgs
    \/ ReadTarget
    \/ Classify
    \/ Sort
    \/ PrintEmpty
    \/ QuerySize
    \/ RenderFiles
    \/ RenderDirs
    \/ RenderTwo

Spec == Init /\ [][Next]_vars

(***************************************************************************)
(* humanSize and truncate on their own: the argument is drawn in the       *)
(* initial state, and one step calls the function.                         *)
(***************************************************************************)
runIdle ==
    /\ args = << >> /\ dirents = << >>
    /\ showAll = FALSE /\ filesOnly = FALSE /\ target = PathDot
    /\ dirs = << >> /\ files = << >> /\ width = 0
    /\ stdout = << >> /\ stderr = << >> /\ exitCode = -1
    /\ reads = noReads

\* Sizes of n base-1024 digits: leading digit t, next digit m, the rest f.
SizeOf(n, t, m, f) == [k \in 1..n |-> IF k = n THEN t ELSE IF k = n - 1 THEN m ELSE f]

\* 0, every size below 1024, and sizes of 2 to 7 digits around the unit
\* steps and the rounding steps; a size is an int64, so below 2^63.
SizeSamples ==
    {<< >>} \cup {<<d>> : d \in 1..1023}
    \cup {SizeOf(n, t, m, f) : n \in 2..6, t \in {1, 7, 8, 9, 10, 1023},
                               m \in {0, 256, 511, 512, 768, 972, 973, 1023},
                               f \in {0, 1, 1023}}
    \cup {SizeOf(7, t, m, f) : t \in {1, 7}, m \in {0, 512, 1023}, f \in {0, 1, 1023}}

InitHumanSize ==
    /\ pc = "call"
    /\ hsIn \in SizeSamples
    /\ hsOut = ""
    /\ trIn = << >> /\ trMax = 0 /\ trOut = << >>
    /\ runIdle
    /\ variantsIdle

HumanSizeCall ==
    /\ pc = "call"
    /\ hsOut' = humanSize(hsIn)
    /\ pc' = "return"
    /\ UNCHANGED <<args, dirents, showAll, filesOnly, target, dirs, files, width,
                   stdout, stderr, exitCode, reads, hsIn, trIn, trMax, trOut>>
    /\ UNCHANGED variantVars

NextHumanSize == HumanSizeCall

SpecHumanSize == InitHumanSize /\ [][NextHumanSize]_vars

\* Names: every string of up to MaxNameRunes runes drawn from "a", the wide
\* rune U+4E16 and the combining accent U+0301, and some strings that are
\* not valid UTF-8.
MaxNameRunes == 6

RuneBytes == {<<97>>, <<228, 184, 150>>, <<204, 129>>}

RECURSIVE NamesUpTo(_)
NamesUpTo(n) ==
    IF n = 0 THEN {<< >>}
    ELSE LET shorter == NamesUpTo(n - 1)
         IN  shorter \cup {q \o x : q \in shorter, x \in RuneBytes}

NameSamples ==
    NamesUpTo(MaxNameRunes)
    \cup {<<255, 255, 255, 255, 255, 255>>,
          <<97, 98, 99, 228, 184, 228, 184, 150, 128>>,
          <<228, 184, 150, 228, 184, 150, 228, 184>>}

InitTruncate ==
    /\ pc = "call"
    /\ trIn \in NameSamples
    /\ trMax \in (-2)..MaxTruncLimit
    /\ trOut = << >>
    /\ hsIn = << >> /\ hsOut = ""
    /\ runIdle
    /\ variantsIdle

TruncateCall ==
    /\ pc = "call"
    /\ trOut' = truncate(trIn, trMax)
    /\ pc' = "return"
    /\ UNCHANGED <<args, dirents, showAll, filesOnly, target, dirs, files, width,
                   stdout, stderr, exitCode, reads, hsIn, hsOut, trIn, trMax>>
    /\ UNCHANGED variantVars

NextTruncate == TruncateCall

SpecTruncate == InitTruncate /\ [][NextTruncate]_vars

(***************************************************************************)
(* Properties of a run (checked under Spec).                               *)
(***************************************************************************)
HasArg(S) == \E k \in 1..Len(args) : args[k] \in S

IsDotName(n) == Len(n) >= 1 /\ n[1] = 46

\* The run read its target and classified what it found.
Listed == reads.target = 1 /\ reads.failed = 0 /\ pc \in {"sort", "sorted", "render", "done"}

NamesIn(items) == {items[k].name : k \in 1..Len(items)}

\* What is on standard output: the panels and the names of their rows.
PanelsShown ==
    {stdout[k] : k \in {j \in 1..Len(stdout) : stdout[j].kind = "panel"}}
    \cup UNION {{stdout[k].left, stdout[k].right} :
                    k \in {j \in 1..Len(stdout) : stdout[j].kind = "joined"}}

RowsShown == UNION {{q.rows[k] : k \in 1..Len(q.rows)} : q \in PanelsShown}

\* The directory entries that are directories, through a symlink or not.
EntIsDir(e) == e.typ = "dir" \/ (e.typ = "symlink" /\ e.link = "dir")

Entries == {dirents[k] : k \in 1..Len(dirents)}

\* The footer line for nd directories and nf files, nd + nf > 0.
FooterLine(nd, nf) ==
    LET d == ToString(nd) \o (IF nd = 1 THEN " dir" ELSE " dirs")
        f == ToString(nf) \o (IF nf = 1 THEN " file" ELSE " files")
    IN  Line("  " \o (IF nd > 0 /\ nf > 0 THEN d \o "  ·  " \o f
                      ELSE IF nd > 0 THEN d ELSE f))

\* C1: a run exits with code 1 exactly when reading the target directory
\* failed; then the error is on standard error, standard output is empty,
\* and no entry was processed and nothing rendered.  Every other run exits
\* with code 0.
C1_ExitCode ==
    /\ pc # "done" => exitCode = -1 /\ reads.failed = 0
    /\ pc = "done" =>
        /\ exitCode \in {0, 1}
        /\ exitCode = 1 <=> reads.failed = 1
        /\ exitCode = 1 =>
            /\ Len(stderr) = 1
            /\ stdout = << >>
            /\ dirs = << >> /\ files = << >>
            /\ reads.info = 0 /\ reads.child = 0 /\ reads.size = 0
        /\ exitCode = 0 => stderr = << >>

C1_Witness == pc = "done" /\ exitCode = 1 /\ reads.failed = 1 /\ stderr # << >>

\* C2: without -a/--all no entry whose name starts with "." is in dirs or
\* files, none is rendered and none is counted in the footer; with -a or
\* --all, anywhere among the arguments, an entry is listed on the same
\* terms whether or not its name starts with ".".
C2_HiddenFilter ==
    Listed =>
        LET fo == HasArg({ArgF, ArgFiles})
            shownDirs(S) == {e \in S : e.infoOK /\ EntIsDir(e) /\ ~fo}
            shownFiles(S) == {e \in S : e.infoOK /\ ~EntIsDir(e)}
            plain == {e \in Entries : ~IsDotName(e.name)}
        IN  IF HasArg({ArgA, ArgAll})
            THEN /\ NamesIn(dirs) = {e.name : e \in shownDirs(Entries)}
                 /\ NamesIn(files) = {e.name : e \in shownFiles(Entries)}
            ELSE /\ \A n \in NamesIn(dirs) \cup NamesIn(files) : ~IsDotName(n)
                 /\ \A r \in RowsShown : ~IsDotName(r.name)
                 /\ NamesIn(dirs) = {e.name : e \in shownDirs(plain)}
                 /\ NamesIn(files) = {e.name : e \in shownFiles(plain)}
                 /\ (pc = "done" /\ Len(stdout) > 1) =>
                        stdout[4] = FooterLine(Cardinality(shownDirs(plain)),
                                               Cardinality(shownFiles(plain)))

C2_Witness ==
    /\ pc = "done" /\ Listed /\ ~HasArg({ArgA, ArgAll})
    /\ \E e \in Entries : IsDotName(e.name) /\ e.infoOK
    /\ Len(stdout) = 5

\* C3: with -f/--files the dirs list is empty after classification, no
\* child directory is read, the output is the single FILES panel or the
\* "empty" line, and the footer has no dir count.
C3_FilesOnly ==
    (Listed /\ HasArg({ArgF, ArgFiles})) =>
        /\ dirs = << >>
        /\ reads.child = 0
        /\ pc = "done" =>
            \/ stdout = <<Line("  empty")>>
            \/ /\ Len(stdout) = 5
               /\ stdout[2].kind = "panel" /\ stdout[2].title = "FILES"
               /\ stdout[4] = FooterLine(0, Len(files))

C3_Witness ==
    /\ pc = "done" /\ Listed /\ HasArg({ArgF, ArgFiles})
    /\ \E e \in Entries : EntIsDir(e) /\ e.infoOK /\ ~IsDotName(e.name)
    /\ Len(stdout) = 5

\* C4: once -h or --help is among the arguments, whatever precedes or
\* follows it, the run prints the usage and exits 0 without reading a
\* directory or querying the terminal.
C4_Help ==
    (HasArg({ArgH, ArgHelp}) /\ pc # "parse") =>
        /\ pc = "done"
        /\ stdout = usage /\ stderr = << >>
        /\ exitCode = 0
        /\ reads = noReads

C4_Witness ==
    /\ pc = "done" /\ args = <<PathMissing, ArgH>>
    /\ stdout = usage /\ exitCode = 0 /\ reads.target = 0

\* C5: the directory read is "." when no argument without a leading "-"
\* is given, otherwise the last such argument; an argument with a leading
\* "-" that is no option sets no flag, is not the target, causes no error.
C5_LastPlain(k) ==
    /\ args[k][1] # 45
    /\ \A j \in (k + 1)..Len(args) : args[j][1] = 45

C5_Target ==
    (pc # "parse" /\ ~HasArg({ArgH, ArgHelp})) =>
        /\ showAll <=> HasArg({ArgA, ArgAll})
        /\ filesOnly <=> HasArg({ArgF, ArgFiles})
        /\ IF \E k \in 1..Len(args) : C5_LastPlain(k)
           THEN \E k \in 1..Len(args) : C5_LastPlain(k) /\ target = args[k]
           ELSE target = PathDot
        /\ reads.target = 1 => reads.path = target
        /\ (pc = "read" \/ reads.target = 1)

C5_Witness ==
    /\ pc = "done" /\ args = <<PathD, ArgAF>>
    /\ reads.path = PathD /\ ~showAll /\ ~filesOnly /\ exitCode = 0

\* C6: when dirs and files are both empty after filtering, the run prints
\* the single line "  empty", no panel and no footer, does not query the
\* terminal, and exits 0.
C6_Empty ==
    (pc = "done" /\ Listed /\ dirs = << >> /\ files = << >>) =>
        /\ stdout = <<Line("  empty")>>
        /\ stderr = << >>
        /\ reads.size = 0
        /\ exitCode = 0

C6_Witness ==
    /\ pc = "done" /\ Listed /\ dirs = << >> /\ files = << >>
    /\ dirents # << >>
    /\ stdout = <<Line("  empty")>>

\* C7: an entry whose Info() fails is in neither list; a symlink whose
\* resolution or stat fails is kept, as a file; a listed directory whose
\* children cannot be read is kept with both counts 0; none of these
\* writes to standard error, stops the other entries from being listed, or
\* changes the exit code from 0.
C7_Passes(e) == HasArg({ArgA, ArgAll}) \/ ~IsDotName(e.name)

C7_EntryErrors ==
    Listed =>
        /\ \A e \in Entries :
            /\ ~e.infoOK => e.name \notin NamesIn(dirs) \cup NamesIn(files)
            /\ (C7_Passes(e) /\ e.infoOK /\ e.typ = "symlink"
                    /\ e.link \in {"evalfail", "statfail"}) =>
                    \E k \in 1..Len(files) :
                        files[k].name = e.name /\ files[k].isSym /\ ~files[k].isDir
            /\ (C7_Passes(e) /\ e.infoOK /\ EntIsDir(e) /\ ~e.childrenOK
                    /\ ~HasArg({ArgF, ArgFiles})) =>
                    \E k \in 1..Len(dirs) :
                        dirs[k].name = e.name /\ dirs[k].subDirs = 0 /\ dirs[k].subFiles = 0
            /\ (C7_Passes(e) /\ e.infoOK /\ ~(EntIsDir(e) /\ HasArg({ArgF, ArgFiles}))) =>
                    e.name \in NamesIn(dirs) \cup NamesIn(files)
        /\ Len(dirs) + Len(files) =
               Cardinality({e \in Entries : C7_Passes(e) /\ e.infoOK
                                /\ ~(EntIsDir(e) /\ HasArg({ArgF, ArgFiles}))})
        /\ stderr = << >>
        /\ pc = "done" => exitCode = 0

C7_Witness ==
    /\ pc = "done" /\ Listed /\ exitCode = 0
    /\ \E e \in Entries : ~e.infoOK
    /\ \E e \in Entries : e.link = "evalfail" /\ e.name \in NamesIn(files)
    /\ Len(stdout) = 5

\* C10: a non-empty listing is rendered in exactly one layout, chosen by
\* files-only mode and the emptiness of dirs and files: a full-width
\* FILES panel; else a full-width DIRS panel; else DIRS left and FILES
\* right with a gap of 2 columns.  The footer follows in every mode.
C10_FullWidth(q) == q.kind = "panel" /\ q.boxWidth + 2 = Max(width, 22)

C10_PanelMode ==
    (pc = "done" /\ Listed /\ ~(dirs = << >> /\ files = << >>)) =>
        /\ Len(stdout) = 5
        /\ stdout[1] = Line("") /\ stdout[3] = Line("")
        /\ stdout[4] = FooterLine(Len(dirs), Len(files)) /\ stdout[5] = Line("")
        /\ IF HasArg({ArgF, ArgFiles}) \/ dirs = << >>
           THEN C10_FullWidth(stdout[2]) /\ stdout[2].title = "FILES"
                /\ Len(stdout[2].rows) = Len(files)
           ELSE IF files = << >>
           THEN C10_FullWidth(stdout[2]) /\ stdout[2].title = "DIRS"
                /\ Len(stdout[2].rows) = Len(dirs)
           ELSE /\ stdout[2].kind = "joined"
                /\ stdout[2].left.title = "DIRS" /\ Len(stdout[2].left.rows) = Len(dirs)
                /\ stdout[2].right.title = "FILES" /\ Len(stdout[2].right.rows) = Len(files)
                /\ stdout[2].gap = 2

C10_Witness ==
    /\ pc = "done" /\ Listed /\ Len(stdout) = 5
    /\ stdout[2].kind = "joined"
    /\ dirs # << >> /\ files # << >>

(***************************************************************************)
(* Properties of humanSize (checked under SpecHumanSize).                  *)
(***************************************************************************)
\* b >= 1024^i: a size without leading zero digits has more than i digits
C8_AtLeastPow(b, i) == Len(b) > i

\* min(4, the largest i with 1024^i <= b), for b >= 1
C8_Index(b) == CHOOSE i \in 0..4 : C8_AtLeastPow(b, i) /\ (i < 4 => ~C8_AtLeastPow(b, i + 1))

\* floor(b / 1024^i)
RECURSIVE C8_Floor(_, _)
C8_Floor(b, i) == IF i = 0 THEN DigitsValue(b) ELSE C8_Floor(Tail(b), i - 1)

\* The texts that show a number x with n <= x < n + 1 in a unit: n itself,
\* n with one decimal, or, rounded up, the next whole number.  A size of
\* more than 53 bits is not exact in float64 and may show n + 1.
C8_Shown(n, unit, exact) ==
    {ToString(n) \o " " \o unit}
    \cup {ToString(n) \o "." \o ToString(t) \o " " \o unit : t \in 0..9}
    \cup {ToString(n + 1) \o ".0 " \o unit}
    \cup (IF exact THEN {} ELSE {ToString(n + 1) \o " " \o unit})

\* C8: humanSize(0) = "0 B"; a size b of 1..1023 is shown as "<b> B";
\* humanSize(1024) = "1.0 K"; the unit of a size b >= 1024 is the i-th of
\* B, K, M, G, T for i = min(4, largest i with 1024^i <= b), the number
\* shown is b / 1024^i, which lies in [1, 1024) for K, M and G, and every
\* b >= 1024^5 is shown in T.
C8_UnitBoundaries ==
    pc = "return" =>
        /\ hsIn = << >> => hsOut = "0 B"
        /\ Len(hsIn) = 1 => hsOut = ToString(hsIn[1]) \o " B"
        /\ hsIn = <<0, 1>> => hsOut = "1.0 K"
        /\ Len(hsIn) >= 2 =>
            LET i == C8_Index(hsIn)
                n == C8_Floor(hsIn, i)
            IN  /\ hsOut \in C8_Shown(n, <<"K", "M", "G", "T">>[i], Len(hsIn) <= 5)
                /\ i < 4 => (n >= 1 /\ n < 1024)
                /\ Len(hsIn) > 5 => i = 4

C8_Witness == pc = "return" /\ hsIn = <<0, 1>> /\ hsOut = "1.0 K"

(***************************************************************************)
(* Properties of truncate (checked under SpecTruncate).                    *)
(***************************************************************************)
\* The byte offsets of s at which a rune starts, and Len(s).
RECURSIVE C9_Boundaries(_, _)
C9_Boundaries(s, i) ==
    IF i > Len(s) THEN {Len(s)}
    ELSE {i - 1} \cup C9_Boundaries(s, i + DecodeRune(s, i).size)

minFontSize == 7

Rat(n, d) == [n |-> n, d |-> d]
ratLess(a, b) == a.n * b.d < b.n * a.d

\* float64 holds x exactly (x is a multiple of 1/4 here)
Exact(x) == (4 * x.n) % x.d = 0

Runs == {1, 2}

\* The size line of alacritty.toml.  kind: "num", fontSizeRe matches and
\* ParseFloat reads v hundredths; "bad", it matches a text ParseFloat
\* rejects (1.2.3); "none", it matches nothing; "unreadable", os.ReadFile
\* fails.  by: the run that wrote the line, 0 before any run.
ConfigLine(kind, v, by) == [kind |-> kind, v |-> v, by |-> by]

ConfigSamples ==
    {ConfigLine("none", 0, 0), ConfigLine("bad", 0, 0), ConfigLine("unreadable", 0, 0)}
    \cup {ConfigLine("num", v, 0) : v \in {0, 650, 700, 750, 1125, 1200}}

\* APPDATA is set; os.Stat of the config path succeeds
EnvSamples == {[appdata |-> FALSE, stat |-> FALSE], [appdata |-> TRUE, stat |-> FALSE],
               [appdata |-> TRUE, stat |-> TRUE]}

\* len(dirs) and len(files) after the listing
Shapes == {[nDirs |-> 0, nFiles |-> 0], [nDirs |-> 3, nFiles |-> 0],
           [nDirs |-> 0, nFiles |-> 8], [nDirs |-> 2, nFiles |-> 71]}

\* What term.GetSize may answer in this variant: an error, or a height
TermAnswers == {[err |-> TRUE, h |-> 0], [err |-> FALSE, h |-> 12],
                [err |-> FALSE, h |-> 24], [err |-> FALSE, h |-> 151]}

\* alacrittyConfigPath() # ""
alacrittyConfigPath(e) == e.appdata /\ e.stat

\* readFontSize, in hundredths
readFontSize(c) == IF c.kind = "num" THEN c.v ELSE 0

\* fmt.Sprintf("%.1f", size) in tenths: the nearest tenth of the float64,
\* ties to even.  A float64 that is not exact lies beside the rational, so
\* on a tie of the rational either neighbour may be printed.
FormatTenths(size, exact) ==
    LET N == 10 * size.n
        q == N \div size.d
        r == N % size.d
    IN  IF 2 * r < size.d THEN {q}
        ELSE IF 2 * r > size.d THEN {q + 1}
        ELSE IF exact /\ Exact(size) THEN {IF q % 2 = 0 THEN q ELSE q + 1}
        ELSE {q, q + 1}

\* writeFontSize: the lines the file may hold afterwards
writeFontSize(c, size, exact, p) ==
    IF c.kind \in {"num", "bad"}
    THEN {ConfigLine("num", 10 * t, p) : t \in FormatTenths(size, exact)}
    ELSE {c}

neededHeight(l) == Max(l.nDirs * 2, l.nFiles * 2) + 10

\* newSize of lines 197-200
newSize(orig, height, needed) ==
    LET scaled == Rat(orig.n * height, orig.d * needed)
    IN  IF ratLess(scaled, Rat(minFontSize, 1)) THEN Rat(minFontSize, 1) ELSE scaled

notStarted ==
    [pc |-> "off", nDirs |-> 0, nFiles |-> 0, height |-> 0, needed |-> 0,
     targetReads |-> 0, childReads |-> 0, sizeQueries |-> 0, renders |-> 0,
     cfgPath |-> FALSE, originalFontSize |-> 0, readFrom |-> 0,
     newSize |-> Rat(0, 1), deferred |-> FALSE, printed |-> ""]

InitFont ==
    /\ pc = "font"
    /\ env \in EnvSamples
    /\ config \in ConfigSamples
    /\ before = config
    /\ runs \in {f \in [Runs -> {notStarted, [notStarted EXCEPT !.pc = "list"]}] :
                    f[1].pc = "list"}
    /\ writes = << >>
    /\ lay = << >> /\ cap = << >>
    /\ harnessIdle
    /\ runIdle

\* The variables a run of the font variant leaves alone.
mainVars == <<pc, args, dirents, showAll, filesOnly, target, dirs, files, width,
              stdout, stderr, exitCode, reads>>
harnessVars == <<hsIn, hsOut, trIn, trMax, trOut>>

\* os.ReadDir(target), the loop over the entries with its child reads, and
\* the sorts; an empty listing prints "empty" and returns.
ListFont(p) ==
    /\ runs[p].pc = "list"
    /\ \E s \in Shapes :
          runs' = [runs EXCEPT ![p].nDirs = s.nDirs, ![p].nFiles = s.nFiles,
                               ![p].targetReads = @ + 1,
                               ![p].childReads = @ + s.nDirs,
                               ![p].printed = IF s.nDirs = 0 /\ s.nFiles = 0
                                              THEN "empty" ELSE @,
                               ![p].pc = IF s.nDirs = 0 /\ s.nFiles = 0
                                         THEN "done" ELSE "size"]
    /\ UNCHANGED <<env, config, before, writes, lay, cap, mainVars, harnessVars>>

\* term.GetSize (height 24 unless it answers), then neededHeight
GetSizeFont(p) ==
    /\ runs[p].pc = "size"
    /\ \E a \in TermAnswers :
          runs' = [runs EXCEPT ![p].height = IF ~a.err THEN a.h ELSE 24,
                               ![p].sizeQueries = @ + 1,
                               ![p].needed = neededHeight(runs[p]),
                               ![p].pc = "path"]
    /\ UNCHANGED <<env, config, before, writes, lay, cap, mainVars, harnessVars>>

\* cfgPath := alacrittyConfigPath(), and the guard of line 194
ConfigPathFont(p) ==
    /\ runs[p].pc = "path"
    /\ LET path == alacrittyConfigPath(env)
       IN  runs' = [runs EXCEPT ![p].cfgPath = path,
                                ![p].pc = IF runs[p].needed > runs[p].height /\ path
                                          THEN "read" ELSE "print"]
    /\ UNCHANGED <<env, config, before, writes, lay, cap, mainVars, harnessVars>>

\* originalFontSize = readFontSize(cfgPath), newSize, and the guards of
\* lines 196 and 201
ReadFont(p) ==
    /\ runs[p].pc = "read"
    /\ LET orig == readFontSize(config)
           ns == newSize(Rat(orig, 100), runs[p].height, runs[p].needed)
       IN  runs' = [runs EXCEPT ![p].originalFontSize = orig,
                                ![p].readFrom = IF config.kind = "num" THEN config.by ELSE 0,
                                ![p].newSize = IF orig > 0 THEN ns ELSE @,
                                ![p].pc = IF orig > 0 /\ ratLess(ns, Rat(orig, 100))
                                          THEN "write" ELSE "print"]
    /\ UNCHANGED <<env, config, before, writes, lay, cap, mainVars, harnessVars>>

\* writeFontSize(cfgPath, newSize) and the defer of the restore
WriteReduced(p) ==
    /\ runs[p].pc = "write"
    /\ \E c \in writeFontSize(config, runs[p].newSize,
                              Exact(Rat(runs[p].originalFontSize, 100)), p) :
          /\ config' = c
          /\ writes' = Append(writes, [run |-> p, kind |-> "reduce", line |-> c,
                                       size |-> runs[p].newSize,
                                       orig |-> runs[p].originalFontSize,
                                       needed |-> runs[p].needed,
                                       height |-> runs[p].height,
                                       cfgPath |-> runs[p].cfgPath,
                                       printed |-> runs[p].printed # ""])
    /\ runs' = [runs EXCEPT ![p].deferred = TRUE, ![p].pc = "requery"]
    /\ UNCHANGED <<env, before, lay, cap, mainVars, harnessVars>>

\* time.Sleep and the second term.GetSize, which keeps the height on an error
Requery(p) ==
    /\ runs[p].pc = "requery"
    /\ \E a \in TermAnswers :
          runs' = [runs EXCEPT ![p].height = IF ~a.err THEN a.h ELSE @,
                               ![p].sizeQueries = @ + 1,
                               ![p].pc = "print"]
    /\ UNCHANGED <<env, config, before, writes, lay, cap, mainVars, harnessVars>>

\* The layout and the output: one of the three panel modes, then the footer
PrintFont(p) ==
    /\ runs[p].pc = "print"
    /\ runs' = [runs EXCEPT ![p].printed = IF runs[p].nDirs = 0 THEN "files"
                                           ELSE IF runs[p].nFiles = 0 THEN "dirs"
                                           ELSE "two",
                            ![p].renders = @ + 1,
                            ![p].pc = IF runs[p].deferred THEN "restore" ELSE "done"]
    /\ UNCHANGED <<env, config, before, writes, lay, cap, mainVars, harnessVars>>

\* The deferred writeFontSize(cfgPath, originalFontSize), run when main returns
RestoreFont(p) ==
    /\ runs[p].pc = "restore"
    /\ LET orig == Rat(runs[p].originalFontSize, 100)
       IN  \E c \in writeFontSize(config, orig, Exact(orig), p) :
              /\ config' = c
              /\ writes' = Append(writes, [run |-> p, kind |-> "restore", line |-> c,
                                           size |-> orig,
                                           orig |-> runs[p].originalFontSize,
                                           needed |-> runs[p].needed,
                                           height |-> runs[p].height,
                                           cfgPath |-> runs[p].cfgPath,
                                           printed |-> runs[p].printed # ""])
    /\ runs' = [runs EXCEPT ![p].pc = "done"]
    /\ UNCHANGED <<env, before, lay, cap, mainVars, harnessVars>>

NextFont ==
    \/ \E p \in Runs : ListFont(p)
    \/ \E p \in Runs : GetSizeFont(p)
    \/ \E p \in Runs : ConfigPathFont(p)
    \/ \E p \in Runs : ReadFont(p)
    \/ \E p \in Runs : WriteReduced(p)
    \/ \E p \in Runs : Requery(p)
    \/ \E p \in Runs : PrintFont(p)
    \/ \E p \in Runs : RestoreFont(p)

SpecFont == InitFont /\ [][NextFont]_vars

(***************************************************************************)
(* Claims about the font-autoscale variant                                 *)
(***************************************************************************)
FontAllDone == \A p \in Runs : runs[p].pc \in {"done", "off"}

\* C11: runs share no mutable state: no run reads a font size that another
\* run wrote, and once every run has exited the config file holds the font
\* size it held before any of them started.  (Stated for the files whose
\* size has one decimal place, which a run on its own writes back as it
\* was.)
C11_NoSharedState ==
    pc = "font" /\ before.v % 10 = 0 =>
        /\ \A p \in Runs : runs[p].readFrom \in {0, p}
        /\ FontAllDone => config.kind = before.kind /\ config.v = before.v

\* C12: a run that has returned has read the target directory exactly once,
\* has read each listed directory at most once, has asked for the terminal
\* size at most once and has rendered at most once (once when it listed an
\* entry).
C12_OneOfEach ==
    pc = "font" =>
        \A p \in Runs :
            runs[p].pc = "done" =>
                /\ runs[p].targetReads = 1
                /\ runs[p].childReads <= runs[p].nDirs
                /\ runs[p].sizeQueries <= 1
                /\ runs[p].renders <= 1
                /\ (runs[p].nDirs + runs[p].nFiles > 0 => runs[p].renders = 1)

(***************************************************************************)
(* Claims about humanSize, the sorts and the layout                        *)
(***************************************************************************)
C13_Unit(b) == <<"K", "M", "G", "T">>[C8_Index(b)]

\* C13: a size b >= 1024 whose number b / 1024^i is below 10 is shown with
\* one decimal place, as one of 1.0 .. 9.9; a number of 10 or more is
\* shown whole, truncated toward zero (stated for the sizes float64 holds
\* exactly); no size is shown as 10.0 of any unit.
C13_UnitStepRounding ==
    pc = "return" /\ Len(hsIn) >= 2 =>
        LET n == C8_Floor(hsIn, C8_Index(hsIn))
            unit == C13_Unit(hsIn)
        IN  /\ n < 10 =>
                hsOut \in {ToString(d) \o "." \o ToString(t) \o " " \o unit :
                              d \in 1..9, t \in 0..9}
            /\ (n >= 10 /\ Len(hsIn) <= 5) => hsOut = ToString(n) \o " " \o unit
            /\ hsOut # "10.0 " \o unit

\* The number of times x occurs in the list items.
C14_Count(items, x) == Cardinality({k \in 1..Len(items) : items[k] = x})

\* The list after holds exactly the entries of the list before.
C14_SameEntries(after, before_) ==
    /\ Len(after) = Len(before_)
    /\ \A k \in 1..Len(before_) : C14_Count(after, before_[k]) = C14_Count(before_, before_[k])

\* a >= b for two sizes, compared digit by digit from the most significant
C14_SizeGE(a, b) ==
    \/ Len(a) > Len(b)
    \/ /\ Len(a) = Len(b)
       /\ \A k \in 1..Len(a) :
             a[k] < b[k] => \E j \in (k + 1)..Len(a) : a[j] > b[j]

\* a <= b for two names, byte-wise after lower-casing
C14_NameLE(a, b) ==
    LET la == toLower(a)
        lb == toLower(b)
    IN  \/ \E k \in 1..Min(Len(la), Len(lb)) :
              la[k] < lb[k] /\ \A j \in 1..(k - 1) : la[j] = lb[j]
        \/ Len(la) <= Len(lb) /\ \A j \in 1..Len(la) : la[j] = lb[j]

\* The row shows the entry: its name, whole or cut short before "…"
C14_Shows(r, it) ==
    \/ r.name = it.name
    \/ \E n \in 0..Len(it.name) : r.name = SubSeq(it.name, 1, n) \o Ellipsis

\* The rows of the panel are those of the list, in the list's order.
C14_InOrder(q, items) ==
    /\ Len(q.rows) = Len(items)
    /\ \A k \in 1..Len(items) : C14_Shows(q.rows[k], items[k])

\* C14: once sorted, and in every panel printed, the dirs are in
\* non-decreasing order of lower-cased name and the files in non-increasing
\* order of size; each sorted list holds exactly the entries the
\* classification put in it.
C14_Ordering ==
    (Listed /\ pc \in {"sorted", "render", "done"}) =>
        /\ \A k \in 1..(Len(dirs) - 1) : C14_NameLE(dirs[k].name, dirs[k + 1].name)
        /\ \A k \in 1..(Len(files) - 1) : C14_SizeGE(files[k].size, files[k + 1].size)
        /\ C14_SameEntries(dirs, classifyAll(dirents, showAll, filesOnly).dirs)
        /\ C14_SameEntries(files, classifyAll(dirents, showAll, filesOnly).files)
        /\ \A q \in PanelsShown :
              /\ q.title = "DIRS" => C14_InOrder(q, dirs)
              /\ q.title = "FILES" => C14_InOrder(q, files)

\* The sort changed the order of the files: "a.txt" was read before the
\* larger file, and the panel shows the larger file first.
C14_Witness ==
    /\ pc = "done" /\ Len(files) = 2
    /\ files # classifyAll(dirents, showAll, filesOnly).files
    /\ \E q \in PanelsShown : q.title = "FILES" /\ Len(q.rows) = 2

(***************************************************************************)
(* The layout on its own: the width is drawn in the initial state, and one *)
(* step computes the widths and the columns the panels take.               *)
(***************************************************************************)
MaxWidth == 200

\* Columns of a printed item: a lipgloss box is its Width and two border
\* columns wide, JoinHorizontal puts the boxes and the gap side by side.
boxColumns(q) == q.boxWidth + 2

outputColumns(item) ==
    IF item.kind = "panel" THEN boxColumns(item)
    ELSE IF item.kind = "joined"
        THEN boxColumns(item.left) + item.gap + boxColumns(item.right)
    ELSE textWidth(item.text)

InitLayout ==
    /\ pc = "call"
    /\ args = << >> /\ dirents = << >>
    /\ showAll = FALSE /\ filesOnly = FALSE /\ target = PathDot
    /\ dirs = << >> /\ files = << >>
    /\ width \in 1..MaxWidth
    /\ stdout = << >> /\ stderr = << >> /\ exitCode = -1
    /\ reads = noReads
    /\ harnessIdle
    /\ variantsIdle

LayoutCall ==
    /\ pc = "call"
    /\ lay' = [innerW |-> innerW(width), nameMax |-> nameMax(width),
               wideInner |-> wideInner(width), wideMax |-> wideMax(width),
               two |-> outputColumns(twoPanelOutput(<< >>, << >>, width)[2]),
               one |-> outputColumns(filesPanelOutput(<< >>, << >>, width)[2])]
    /\ pc' = "return"
    /\ UNCHANGED <<args, dirents, showAll, filesOnly, target, dirs, files, width,
                   stdout, stderr, exitCode, reads, harnessVars,
                   cap, env, config, before, runs, writes>>

NextLayout == LayoutCall

SpecLayout == InitLayout /\ [][NextLayout]_vars

\* C15 as stated: for every width w >= 1 the inner widths are at least 20,
\* the name widths lie between 16 and maxNameLen, and the output is never
\* wider than the terminal: two panels take 2 * (innerW + 2) + 2 <= w
\* columns, a single panel wideInner + 2 <= w.
C15_NeverWider ==
    pc = "return" =>
        /\ lay.innerW >= 20 /\ lay.wideInner >= 20
        /\ lay.nameMax >= 16 /\ lay.nameMax <= maxNameLen
        /\ lay.wideMax >= 16 /\ lay.wideMax <= maxNameLen
        /\ lay.two = 2 * (lay.innerW + 2) + 2 /\ lay.two <= width
        /\ lay.one = lay.wideInner + 2 /\ lay.one <= width

\* C15, amended: for every width w >= 1 the inner widths are at least 20
\* and the name widths lie between 16 and maxNameLen; two panels take
\* 2 * (innerW + 2) + 2 columns, which is at most w exactly when w >= 46,
\* and 46 below that; a single panel takes wideInner + 2 columns, which is
\* at most w exactly when w >= 22, and 22 below that.
C15_Responsive ==
    pc = "return" =>
        /\ lay.innerW >= 20 /\ lay.wideInner >= 20
        /\ lay.nameMax >= 16 /\ lay.nameMax <= maxNameLen
        /\ lay.wideMax >= 16 /\ lay.wideMax <= maxNameLen
        /\ lay.two = 2 * (lay.innerW + 2) + 2
        /\ lay.two <= width <=> width >= 46
        /\ width < 46 => lay.two = 46
        /\ lay.one = lay.wideInner + 2
        /\ lay.one <= width <=> width >= 22
        /\ width < 22 => lay.one = 22

\* A terminal of 100 columns: two panels of inner width 47 fill it.
C15_Witness ==
    pc = "return" /\ width = 100 /\ lay.innerW = 47 /\ lay.nameMax = 43 /\ lay.two = 100

(***************************************************************************)
(* The height-aware variant of main() (src/main.go from line 419)          *)
(*                                                                         *)
(* Its listing, classification, sorting, dirSubtitle and humanSize are     *)
(* those of the run above.  The names of its own definitions end in H      *)
(* where the first variant has one of the same name.                       *)
(***************************************************************************)
maxNameLenH == 40

MaxListed == 4      \* number of dirs, and of files, after the sorts
MaxHeight == 20     \* largest terminal height answered
MaxLines == 10      \* largest maxLines handed to capDirs and capFiles

\* The k-th directory "d<k>" and the k-th file "f<k>.go" of a sorted
\* listing: the names increase and the sizes decrease with k.
DirSample(k) ==
    [name |-> <<100, 48 + k>>, isDir |-> TRUE, isSym |-> k = 3, size |-> <<0, 4>>,
     dot |-> FALSE, ext |-> << >>, subDirs |-> k % 3, subFiles |-> k % 2]

FileSample(k) ==
    [name |-> <<102, 48 + k, 46, 103, 111>>, isDir |-> FALSE, isSym |-> FALSE,
     size |-> <<512, 20 - k>>, dot |-> FALSE, ext |-> <<103, 111>>,
     subDirs |-> 0, subFiles |-> 0]

SortedDirs(n) == [k \in 1..n |-> DirSample(k)]
SortedFiles(n) == [k \in 1..n |-> FileSample(k)]

\* What term.GetSize may answer: an error, or a width and a height
TermAnswersH ==
    {[err |-> TRUE, w |-> 0, h |-> 0]}
    \cup {[err |-> FALSE, w |-> w, h |-> h] : w \in {0, 80}, h \in 0..MaxHeight}

maxContentLines(height) == Max(height - 9, 5)

\* capDirs that counts the overflow from maxItems, not from show.
capDirs_OverflowFromMax(ds, maxLines) ==
    LET maxItems == Max(quot(maxLines, 2), 1)
        show == Max(maxItems - 1, 1)
    IN  IF Len(ds) <= maxItems THEN [shown |-> ds, overflow |-> 0]
        ELSE [shown |-> SubSeq(ds, 1, show), overflow |-> Len(ds) - maxItems]

capDirs(ds, maxLines) ==
    LET maxItems == Max(quot(maxLines, 2), 1)
        show == Max(maxItems - 1, 1)
    IN  IF Len(ds) <= maxItems THEN [shown |-> ds, overflow |-> 0]
        ELSE [shown |-> SubSeq(ds, 1, show), overflow |-> Len(ds) - show]

capFiles(fs, maxLines) ==
    LET maxItems == Max(quot(maxLines, 2), 1)
        show == Max(maxItems - 1, 1)
    IN  IF Len(fs) <= maxItems THEN [shown |-> fs, overflow |-> 0]
        ELSE [shown |-> SubSeq(fs, 1, show), overflow |-> Len(fs) - show]

\* truncate of this variant: it cuts bytes
truncateH(s, max) ==
    LET m == Max(max, 4)
    IN  IF Len(s) <= m THEN s ELSE SubSeq(s, 1, m - 1) \o Ellipsis

nameStyle(it) == IF it.isSym THEN "sym" ELSE IF it.dot THEN "dot" ELSE "plain"

\* The lines of a panel's content: a name line and a subtitle (or size)
\* line per entry, then "+... more" when entries were cut.
RECURSIVE entryLines(_, _, _)
entryLines(items, limit, isDirs) ==
    IF items = << >> THEN << >>
    ELSE LET it == Head(items)
         IN  <<[kind |-> "name", text |-> truncateH(it.name, limit), style |-> nameStyle(it)],
               [kind |-> "sub",
                text |-> IF isDirs THEN dirSubtitle(it.subDirs, it.subFiles)
                         ELSE humanSize(it.size)]>>
             \o entryLines(Tail(items), limit, isDirs)

moreLine(overflow) == IF overflow > 0 THEN <<[kind |-> "more", text |-> "+... more"]>> ELSE << >>

buildDirContentH(ds, limit, overflow) == entryLines(ds, limit, TRUE) \o moreLine(overflow)
buildFileContentH(fs, limit, overflow) == entryLines(fs, limit, FALSE) \o moreLine(overflow)

printFooterH(dirCount, fileCount) ==
    LET parts == IF dirCount > 0 /\ fileCount > 0
                     THEN plural(dirCount, "dir") \o ", " \o plural(fileCount, "file")
                 ELSE IF dirCount > 0 THEN plural(dirCount, "dir")
                 ELSE IF fileCount > 0 THEN plural(fileCount, "file")
                 ELSE ""
    IN  <<Line("  " \o parts), Line("")>>

innerWH(w) == Max(quot(w - 2, 2) - 4, 20)
nameMaxH(w) == Min(innerWH(w) - 2, maxNameLenH)
wideInnerH(w) == Max(w - 6, 20)
wideMaxH(w) == Min(wideInnerH(w) - 2, maxNameLenH)

\* A box: the title, a blank line and the content, inside a padding of one
\* line above and below and a border.
panelH(title, boxWidth, content) ==
    [kind |-> "panel", title |-> title, boxWidth |-> boxWidth, content |-> content]

panelLines(q) == 1 + 1 + 1 + 1 + Len(q.content) + 1 + 1

\* The lines an item of the output takes (JoinHorizontal is as tall as its
\* taller box).
outputLines(item) ==
    IF item.kind = "panel" THEN panelLines(item)
    ELSE IF item.kind = "joined" THEN Max(panelLines(item.left), panelLines(item.right))
    ELSE 1

\* What each mode of this variant prints.
filesPanelOutputH(c, w) ==
    <<Line(""),
      panelH("FILES", wideInnerH(w), buildFileContentH(c.files, wideMaxH(w), c.fileOverflow)),
      Line("")>>
    \o printFooterH(Len(c.dirs) + c.dirOverflow, Len(c.files) + c.fileOverflow)

dirsPanelOutputH(c, w) ==
    <<Line(""),
      panelH("DIRS", wideInnerH(w), buildDirContentH(c.dirs, wideMaxH(w), c.dirOverflow)),
      Line("")>>
    \o printFooterH(Len(c.dirs) + c.dirOverflow, Len(c.files) + c.fileOverflow)

twoPanelOutputH(c, w) ==
    <<Line(""),
      [kind |-> "joined",
       left |-> panelH("DIRS", innerWH(w), buildDirContentH(c.dirs, nameMaxH(w), c.dirOverflow)),
       gap |-> 2,
       right |-> panelH("FILES", innerWH(w),
                        buildFileContentH(c.files, nameMaxH(w), c.fileOverflow))],
      Line("")>>
    \o printFooterH(Len(c.dirs) + c.dirOverflow, Len(c.files) + c.fileOverflow)

\* The state of the run (or of the call) before the lists are capped.
uncapped(height, maxLines) ==
    [height |-> height, maxLines |-> maxLines, dirs |-> << >>, dirOverflow |-> 0,
     files |-> << >>, fileOverflow |-> 0, footer |-> << >>]

\* A run of this variant from its sorted, non-empty lists on.
InitHeight ==
    /\ pc = "sorted"
    /\ args = << >> /\ dirents = << >>
    /\ showAll = FALSE /\ filesOnly = FALSE /\ target = PathDot
    /\ \E n, m \in 0..MaxListed :
          n + m > 0 /\ dirs = SortedDirs(n) /\ files = SortedFiles(m)
    /\ width = 0
    /\ stdout = << >> /\ stderr = << >> /\ exitCode = -1
    /\ reads = noReads
    /\ harnessIdle
    /\ lay = << >> /\ cap = uncapped(0, 0)
    /\ env = << >> /\ config = << >> /\ before = << >> /\ runs = << >> /\ writes = << >>

\* term.GetSize (80 x 24 unless it answers a positive width), then
\* maxContentLines
GetSizeH ==
    /\ pc = "sorted"
    /\ \E a \in TermAnswersH :
          LET ok == ~a.err /\ a.w > 0
              height == IF ok THEN a.h ELSE 24
          IN  /\ width' = IF ok THEN a.w ELSE 80
              /\ cap' = uncapped(height, maxContentLines(height))
    /\ pc' = "cap"
    /\ UNCHANGED <<args, dirents, showAll, filesOnly, target, dirs, files,
                   stdout, stderr, exitCode, reads, harnessVars,
                   lay, env, config, before, runs, writes>>

\* dirs, dirOverflow := capDirs(...); files, fileOverflow := capFiles(...)
CapH ==
    /\ pc = "cap"
    /\ LET d == capDirs(dirs, cap.maxLines)
           f == capFiles(files, cap.maxLines)
       IN  cap' = [cap EXCEPT !.dirs = d.shown, !.dirOverflow = d.overflow,
                              !.files = f.shown, !.fileOverflow = f.overflow]
    /\ pc' = "render"
    /\ UNCHANGED <<args, dirents, showAll, filesOnly, target, dirs, files, width,
                   stdout, stderr, exitCode, reads, harnessVars,
                   lay, env, config, before, runs, writes>>

\* The three modes of the output, chosen from the capped lists.
RenderH ==
    /\ pc = "render"
    /\ stdout' = stdout \o
          (IF filesOnly \/ Len(cap.dirs) = 0 THEN filesPanelOutputH(cap, width)
           ELSE IF Len(cap.files) = 0 THEN dirsPanelOutputH(cap, width)
           ELSE twoPanelOutputH(cap, width))
    /\ exitCode' = 0
    /\ pc' = "done"
    /\ UNCHANGED <<args, dirents, showAll, filesOnly, target, dirs, files, width,
                   stderr, reads, harnessVars,
                   lay, cap, env, config, before, runs, writes>>

NextHeight ==
    \/ GetSizeH
    \/ CapH
    \/ RenderH

SpecHeight == InitHeight /\ [][NextHeight]_vars

\* capDirs, capFiles and the footer on their own: the lists and maxLines
\* are drawn in the initial state, and one step calls them as main does.
InitCap ==
    /\ pc = "call"
    /\ args = << >> /\ dirents = << >>
    /\ showAll = FALSE /\ filesOnly = FALSE /\ target = PathDot
    /\ \E n, m \in 0..MaxListed : dirs = SortedDirs(n) /\ files = SortedFiles(m)
    /\ width = 0
    /\ stdout = << >> /\ stderr = << >> /\ exitCode = -1
    /\ reads = noReads
    /\ harnessIdle
    /\ lay = << >>
    /\ \E m \in (-2)..MaxLines : cap = uncapped(0, m)
    /\ env = << >> /\ config = << >> /\ before = << >> /\ runs = << >> /\ writes = << >>

CapCall ==
    /\ pc = "call"
    /\ LET d == capDirs(dirs, cap.maxLines)
           f == capFiles(files, cap.maxLines)
       IN  cap' = [cap EXCEPT !.dirs = d.shown, !.dirOverflow = d.overflow,
                              !.files = f.shown, !.fileOverflow = f.overflow,
                              !.footer = printFooterH(Len(d.shown) + d.overflow,
                                                      Len(f.shown) + f.overflow)]
    /\ pc' = "return"
    /\ UNCHANGED <<args, dirents, showAll, filesOnly, target, dirs, files, width,
                   stdout, stderr, exitCode, reads, harnessVars,
                   lay, env, config, before, runs, writes>>

NextCap == CapCall

SpecCap == InitCap /\ [][NextCap]_vars

(***************************************************************************)
(* Claims about the height-aware variant                                   *)
(***************************************************************************)
\* The lines the whole output takes.
RECURSIVE C16_TotalLines(_)
C16_TotalLines(out) ==
    IF out = << >> THEN 0 ELSE outputLines(Head(out)) + C16_TotalLines(Tail(out))

\* Two lines per shown entry, and one for "+... more" when entries were cut.
C16_ContentLines(shown, overflow) == 2 * Len(shown) + (IF overflow > 0 THEN 1 ELSE 0)

C16_Boxes ==
    {stdout[k] : k \in {j \in 1..Len(stdout) : stdout[j].kind = "panel"}}
    \cup UNION {{stdout[k].left, stdout[k].right} :
                    k \in {j \in 1..Len(stdout) : stdout[j].kind = "joined"}}

\* C16: with maxContentLines = max(5, height - 9), the content of each
\* panel printed is at most maxContentLines lines, and in a terminal of 14
\* lines or more the whole output (blank line, box, blank line, footer,
\* blank line) takes at most height lines.
C16_FitsHeight ==
    pc = "done" =>
        /\ cap.maxLines = Max(5, cap.height - 9)
        /\ C16_ContentLines(cap.dirs, cap.dirOverflow) <= cap.maxLines
        /\ C16_ContentLines(cap.files, cap.fileOverflow) <= cap.maxLines
        /\ \A q \in C16_Boxes :
              /\ Len(q.content) <= cap.maxLines
              /\ q.title = "DIRS" =>
                    Len(q.content) = C16_ContentLines(cap.dirs, cap.dirOverflow)
              /\ q.title = "FILES" =>
                    Len(q.content) = C16_ContentLines(cap.files, cap.fileOverflow)
        /\ cap.height >= 14 => C16_TotalLines(stdout) <= cap.height

\* The list shown is a prefix of the list, shown and overflow add up to
\* the list, nothing is cut exactly when the list has at most
\* max(1, maxLines / 2) entries, and a list that is not empty shows an entry.
C17_Conserves(list, shown, overflow, maxLines) ==
    /\ Len(shown) <= Len(list) /\ shown = SubSeq(list, 1, Len(shown))
    /\ overflow >= 0 /\ Len(shown) + overflow = Len(list)
    /\ overflow = 0 <=> Len(list) <= Max(1, quot(maxLines, 2))
    /\ Len(list) > 0 => Len(shown) >= 1

\* The footer text for nd dirs and nf files.
C17_Count(n, word) == ToString(n) \o " " \o word \o (IF n > 1 THEN "s" ELSE "")

C17_Footer(nd, nf) ==
    "  " \o (IF nd > 0 THEN C17_Count(nd, "dir") ELSE "")
         \o (IF nd > 0 /\ nf > 0 THEN ", " ELSE "")
         \o (IF nf > 0 THEN C17_Count(nf, "file") ELSE "")

\* C17: capDirs and capFiles return a prefix of their list, shown and
\* overflow add up to the length of the list, overflow is 0 exactly when
\* the list has at most max(1, maxLines / 2) entries, and a list that is
\* not empty keeps an entry; the footer printed from len(shown) + overflow
\* gives the true numbers of dirs and files, with "s" exactly above 1 and
\* without a count of 0.
C17_CapConserves ==
    pc = "return" =>
        /\ C17_Conserves(dirs, cap.dirs, cap.dirOverflow, cap.maxLines)
        /\ C17_Conserves(files, cap.files, cap.fileOverflow, cap.maxLines)
        /\ cap.footer[1].text = C17_Footer(Len(dirs), Len(files))

\* Four dirs capped for six lines: two are shown, two are cut, and the
\* footer still counts four.
C17_Witness ==
    /\ pc = "return" /\ cap.maxLines = 6 /\ Len(dirs) = 4 /\ Len(files) = 1
    /\ Len(cap.dirs) = 2 /\ cap.dirOverflow = 2 /\ cap.fileOverflow = 0
    /\ cap.footer[1].text = "  4 dirs, 1 file"

(***************************************************************************)
(* Claims about the child counts                                           *)
(***************************************************************************)
\* The children of the entry e that pass the hidden-file filter.
C18_Counted(e) == {k \in 1..Len(e.children) : showAll \/ ~e.children[k].dot}

\* The children among them that the top-level listing would put in dirs: a
\* directory, or a symlink that resolves to one.
C18_Dirs(e) == {k \in C18_Counted(e) : e.children[k].toDir}

\* C18: for every listed directory whose children could be read, subDirs +
\* subFiles is the number of its immediate children that pass the hidden-
\* file filter, each listed directory is read once and nothing below it,
\* its row says "empty" exactly when both counts are 0, and subDirs counts
\* exactly the children that the top-level listing would classify as dirs.
C18_ChildCounts ==
    (Listed /\ pc \in {"sorted", "render", "done"}) =>
        /\ reads.child = Len(dirs)
        /\ \A k \in 1..Len(dirs) :
              \E e \in Entries :
                 /\ e.name = dirs[k].name
                 /\ e.childrenOK =>
                       /\ dirs[k].subDirs + dirs[k].subFiles = Cardinality(C18_Counted(e))
                       /\ dirs[k].subDirs = Cardinality(C18_Dirs(e))
        /\ \A q \in PanelsShown :
              q.title = "DIRS" =>
                 /\ Len(q.rows) = Len(dirs)
                 /\ \A k \in 1..Len(dirs) :
                       q.rows[k].meta = "empty"
                           <=> (dirs[k].subDirs = 0 /\ dirs[k].subFiles = 0)

(***************************************************************************)
(* Claims about the font autoscale                                         *)
(***************************************************************************)
\* The writes of the run p, in order.
WritesOf(p) == SelectSeq(writes, LAMBDA w : w.run = p)

\* C19: a run on its own that wrote the reduced size has, when it exits,
\* written the original size back, as its last write and after its output,
\* whichever of the three panel modes it printed, and the size in the
\* config file is then the size that was there before the run.
C19_Restores ==
    (pc = "font" /\ runs[2].pc = "off" /\ runs[1].pc = "done" /\ runs[1].deferred) =>
        /\ runs[1].printed \in {"files", "dirs", "two"}
        /\ Len(writes) = 2
        /\ writes[1].kind = "reduce" /\ ~writes[1].printed
        /\ writes[2].kind = "restore" /\ writes[2].printed
        /\ writes[2].size = Rat(before.v, 100)
        /\ config.kind = before.kind /\ config.v = before.v

\* C20: the reduced size is written only when the needed height exceeds
\* the terminal height, the config file exists and a positive size was
\* read from it; the size written is below the original and at least
\* minFontSize; a run that found no config path, or read a size that is not
\* above minFontSize, writes nothing, and the original is only written
\* back after a reduced size.
C20_GuardAndBounds ==
    pc = "font" =>
        /\ \A k \in 1..Len(writes) :
              LET w == writes[k]
              IN  /\ w.needed = 2 * Max(runs[w.run].nDirs, runs[w.run].nFiles) + 10
                  /\ w.cfgPath /\ env.appdata /\ env.stat
                  /\ w.orig > 0
                  /\ w.kind = "reduce" =>
                        /\ w.needed > w.height
                        /\ w.line.kind = "num"
                        /\ w.line.v < w.orig
                        /\ w.line.v >= 100 * minFontSize
                  /\ w.kind = "restore" =>
                        \E j \in 1..(k - 1) : writes[j].run = w.run /\ writes[j].kind = "reduce"
        /\ \A p \in Runs :
              (runs[p].pc \in {"print", "restore", "done"}
               /\ (~runs[p].cfgPath \/ runs[p].originalFontSize <= 100 * minFontSize))
                  => WritesOf(p) = << >>

\* The display width of a rendered row: the 2-column prefix, the name, a
\* space, the dot leader, a space and the metadata.
rowWidth(r) == 2 + StringWidth(r.name) + 1 + r.leader + 1 + textWidth(r.meta)

\* The content widths main passes to buildDirContent and buildFileContent
\* are between 16 and 80, and every dot leader has at least one dot.
C21_RangeAndDot ==
    \A q \in PanelsShown :
        /\ 16 <= q.rule /\ q.rule <= 80
        /\ \A k \in 1..Len(q.rows) : q.rows[k].leader >= 1

\* A row whose dot count was not raised to the floor of 3 is exactly as
\* wide as the content area.
C21_ExactAboveFloor ==
    \A q \in PanelsShown : \A k \in 1..Len(q.rows) :
        q.rows[k].leader > 1 => rowWidth(q.rows[k]) = q.rule

\* C21: every rendered row of a dirs or files panel, for every lineWidth
\* main can pass (16..80), has display width exactly lineWidth, so that no
\* row is wider than the panel's content area, and its dot leader has at
\* least one dot.
C21_RowWidth ==
    \A q \in PanelsShown :
        /\ 16 <= q.rule /\ q.rule <= 80
        /\ \A k \in 1..Len(q.rows) :
               /\ rowWidth(q.rows[k]) = q.rule
               /\ q.rows[k].leader >= 1

\* The entries that pass the hidden filter and whose Info() succeeds.
Kept == {e \in Entries : (showAll \/ ~IsDotName(e.name)) /\ e.infoOK}

\* The positions of a list that hold the entry e.
PlacesOf(e, items) == {k \in 1..Len(items) : items[k].name = e.name}

\* The rows of the panel titled t that is on standard output, if any.
RowsOf(t) == {q.rows : q \in {x \in PanelsShown : x.title = t}}

\* Every row of the panel titled t shows its item with the symlink style
\* exactly when the item is a symlink.
SymStyled(t, items) ==
    \A rs \in RowsOf(t) :
        /\ Len(rs) = Len(items)
        /\ \A k \in 1..Len(rs) : (rs[k].style = "sym") = items[k].isSym

\* C22: without -f, every entry that passes the hidden filter and whose
\* Info() succeeds is once in exactly one of dirs and files, so the footer
\* counts add up to the number of such entries; it is in dirs exactly when
\* it is a directory or a symlink that resolves to a directory; and a
\* symlink keeps its symlink flag and styling in whichever list it lands.
C22_Partition ==
    (Listed /\ ~filesOnly) =>
        /\ \A e \in Kept :
               /\ Cardinality(PlacesOf(e, dirs)) + Cardinality(PlacesOf(e, files)) = 1
               /\ (PlacesOf(e, dirs) # {}) = EntIsDir(e)
               /\ \A k \in PlacesOf(e, dirs) : dirs[k].isSym = (e.typ = "symlink")
               /\ \A k \in PlacesOf(e, files) : files[k].isSym = (e.typ = "symlink")
        /\ Len(dirs) + Len(files) = Cardinality(Kept)
        /\ (pc = "done" /\ Kept # {}) =>
               /\ stdout[Len(stdout) - 1] = FooterLine(Len(dirs), Len(files))
               /\ SymStyled("DIRS", dirs)
               /\ SymStyled("FILES", files)

\* A symlink to a directory is listed under DIRS and a dangling symlink
\* under FILES, both in the symlink style, and the footer counts the two.
C22_Witness ==
    /\ pc = "done" /\ ~filesOnly /\ Cardinality(Kept) = 2
    /\ \E k \in 1..Len(dirs) : dirs[k].isSym
    /\ \E k \in 1..Len(files) : files[k].isSym
    /\ \E q \in PanelsShown : q.title = "DIRS" /\ q.rows[1].style = "sym"
    /\ \E q \in PanelsShown : q.title = "FILES" /\ q.rows[1].style = "sym"
    /\ stdout[Len(stdout) - 1] = FooterLine(1, 1)

(***************************************************************************)
(* The borderless variant (src/unnamed/part_001): names in plain columns,  *)
(* no boxes.  Its humanSize is the text of main.go's, modelled above.      *)
(***************************************************************************)
maxNameLenB == 45

\* The longest sample name, in bytes.
MaxNameBytes == 50

\* s[:k] on a string of n bytes: the Go runtime panics unless 0 <= k <= n.
sliceOK(n, k) == 0 <= k /\ k <= n

\* strings.Repeat(s, count) panics on a negative count.
repeatOK(count) == count >= 0

\* A call of truncate or of strings.Repeat, as the run logs it: the byte
\* length of the string and the limit or count handed over.
CallTruncate(s, max) == [fn |-> "truncate", len |-> Len(s), arg |-> max]
CallRepeat(count) == [fn |-> "Repeat", len |-> 1, arg |-> count]

\* truncate(s, max) of this variant: byte lengths, no floor on max.  ok is
\* false when the slice expression s[:max-1] panics.
truncateB(s, max) ==
    IF Len(s) <= max THEN [ok |-> TRUE, out |-> s]
    ELSE IF sliceOK(Len(s), max - 1)
         THEN [ok |-> TRUE, out |-> SubSeq(s, 1, max - 1) \o Ellipsis]
         ELSE [ok |-> FALSE, out |-> << >>]

\* The number of runes a range loop over s yields (an invalid byte counts
\* as one rune).
RECURSIVE RuneCount(_, _)
RuneCount(s, i) ==
    IF i > Len(s) THEN 0 ELSE 1 + RuneCount(s, i + DecodeRune(s, i).size)

\* The lines of this variant's output: a header (label and a rule of lineW
\* columns), a styled name, and a file's subtitle (size and extension).
HeaderLine(label, lineWB) == [kind |-> "header", label |-> label, rule |-> lineWB]
NameLine(style, name) == [kind |-> "name", style |-> style, name |-> name]
SubLine(size, ext) == [kind |-> "sub", size |-> size, ext |-> ext]

\* visLen of a line: the runes outside escape sequences.
visLen(l) ==
    IF l.kind = "header" THEN 2 + Len(l.label) + 1 + l.rule
    ELSE IF l.kind = "name" THEN 2 + RuneCount(l.name, 1)
    ELSE IF l.kind = "sub"
         THEN 4 + Len(l.size) + (IF l.ext = << >> THEN 0 ELSE 3 + RuneCount(l.ext, 1))
    ELSE Len(l.text)

\* The style switch of renderSingle; the panel builders' switches agree
\* with it on directories and on files.
nameStyleB(it) ==
    IF it.isSym THEN "sym"
    ELSE IF it.dot /\ it.isDir THEN "dotDir"
    ELSE IF it.isDir THEN "dir"
    ELSE IF it.dot THEN "dotFile"
    ELSE "file"

\* The loop over the items of a column, from the lines and the calls made
\* before it: the lines it produces and the truncate calls it makes, up to
\* the first call that panics.
RECURSIVE itemLines(_, _, _, _, _)
itemLines(items, nameMaxB, isFile, lines, calls) ==
    IF items = << >> THEN [ok |-> TRUE, lines |-> lines, calls |-> calls]
    ELSE LET it == Head(items)
             t == truncateB(it.name, nameMaxB)
             own == <<NameLine(nameStyleB(it), t.out)>>
                    \o (IF isFile THEN <<SubLine(humanSize(it.size), it.ext)>> ELSE << >>)
         IN  IF ~t.ok
             THEN [ok |-> FALSE, lines |-> lines,
                   calls |-> Append(calls, CallTruncate(it.name, nameMaxB))]
             ELSE itemLines(Tail(items), nameMaxB, isFile, lines \o own,
                            Append(calls, CallTruncate(it.name, nameMaxB)))

\* renderSingle(items, label, width): the header, then the items.
renderSingle(items, label, width_) ==
    LET lineWB == Max(width_ - Len(label) - 4, 2)
        nameMaxB == Min(width_ - 6, maxNameLenB)
    IN  itemLines(items, nameMaxB, label = "files",
                  <<Line(""), HeaderLine(label, lineWB), Line("")>>,
                  <<CallRepeat(lineWB)>>)

\* buildDirPanel(dirs, panelW) and buildFilePanel(files, panelW), which
\* differ in the label and in the subtitle lines of the files.
buildPanel(items, label, panelW) ==
    LET lineWB == Max(panelW - Len(label) - 2, 2)
        nameMaxB == Min(panelW - 4, maxNameLenB)
    IN  itemLines(items, nameMaxB, label = "files",
                  <<HeaderLine(label, lineWB), Line("")>>, <<CallRepeat(lineWB)>>)

buildDirPanel(ds, panelW) == buildPanel(ds, "dirs", panelW)
buildFilePanel(fs, panelW) == buildPanel(fs, "files", panelW)

\* padToWidth(s, width): the number of spaces appended, and the call of
\* strings.Repeat that makes them, if any.
padToWidth(l, width_) ==
    IF visLen(l) >= width_ THEN [pad |-> 0, calls |-> << >>]
    ELSE [pad |-> width_ - visLen(l), calls |-> <<CallRepeat(width_ - visLen(l))>>]

\* printFooter of this variant: the counts joined by ", ".
printFooterB(dirCount, fileCount) ==
    LET d == ToString(dirCount) \o " dir" \o (IF dirCount > 1 THEN "s" ELSE "")
        f == ToString(fileCount) \o " file" \o (IF fileCount > 1 THEN "s" ELSE "")
    IN  <<Line("  " \o (IF dirCount > 0 /\ fileCount > 0 THEN d \o ", " \o f
                        ELSE IF dirCount > 0 THEN d
                        ELSE IF fileCount > 0 THEN f ELSE "")),
          Line("")>>

\* Sample entries: a name of n bytes that starts with the byte c.
NameB(c, n) == [k \in 1..n |-> IF k = 1 THEN c ELSE 120]

DirB(c, n, sym) ==
    [name |-> NameB(c, n), isDir |-> TRUE, isSym |-> sym, size |-> <<0, 4>>,
     dot |-> c = 46, ext |-> << >>]

FileB(c, n, sym, ext) ==
    [name |-> NameB(c, n), isDir |-> FALSE, isSym |-> sym, size |-> <<n>>,
     dot |-> c = 46, ext |-> ext]

\* The sorted lists a run may start from.
DirListsB ==
    {<< >>, <<DirB(100, 1, FALSE)>>,
     <<DirB(46, 3, FALSE), DirB(100, 9, TRUE), DirB(100, MaxNameBytes, FALSE)>>}

FileListsB ==
    {<< >>, <<FileB(102, 4, FALSE, <<103, 111>>)>>,
     <<FileB(46, 2, FALSE, << >>), FileB(102, 12, TRUE, << >>),
       FileB(102, MaxNameBytes, FALSE, <<103, 111>>)>>}

\* What term.GetSize may answer: an error, or a width
TermAnswersB ==
    {[err |-> TRUE, w |-> 0]} \cup {[err |-> FALSE, w |-> w] : w \in 0..MaxWidth}

\* The print loop of the side-by-side mode over the lines of both panels,
\* the shorter one continued by empty lines: each left line is padded to
\* panelW and followed by the gap and the right line.
RECURSIVE joinLines(_, _, _, _, _, _)
joinLines(ls, rs, panelW, gap, lines, calls) ==
    IF ls = << >> /\ rs = << >> THEN [ok |-> TRUE, lines |-> lines, calls |-> calls]
    ELSE LET l == IF ls = << >> THEN Line("") ELSE Head(ls)
             r == IF rs = << >> THEN Line("") ELSE Head(rs)
             p == padToWidth(l, panelW)
         IN  joinLines(IF ls = << >> THEN << >> ELSE Tail(ls),
                       IF rs = << >> THEN << >> ELSE Tail(rs), panelW, gap,
                       Append(lines, [kind |-> "pair", left |-> l, pad |-> p.pad,
                                      gap |-> gap, right |-> r]),
                       calls \o p.calls)

\* The side-by-side part of main: both panels are built, then printed line
\* by line between two empty lines.
sideBySide(ds, fs, width_) ==
    LET gap == 4
        panelW == quot(width_ - gap, 2)
        left == buildDirPanel(ds, panelW)
        right == buildFilePanel(fs, panelW)
        out == joinLines(left.lines, right.lines, panelW, gap, <<Line("")>>,
                         left.calls \o right.calls \o <<CallRepeat(gap)>>)
    IN  IF ~left.ok THEN [ok |-> FALSE, lines |-> << >>, calls |-> left.calls]
        ELSE IF ~right.ok
             THEN [ok |-> FALSE, lines |-> << >>, calls |-> left.calls \o right.calls]
        ELSE [ok |-> TRUE, lines |-> Append(out.lines, Line("")), calls |-> out.calls]

\* A run of this variant from its sorted, non-empty lists on; -f leaves
\* dirs empty.
InitB ==
    /\ pc = "sorted"
    /\ args = << >> /\ dirents = << >>
    /\ showAll = FALSE /\ filesOnly \in BOOLEAN /\ target = PathDot
    /\ dirs \in DirListsB /\ files \in FileListsB
    /\ Len(dirs) + Len(files) > 0
    /\ filesOnly => dirs = << >>
    /\ width = 0
    /\ stdout = << >> /\ stderr = << >> /\ exitCode = -1
    /\ reads = noReads
    /\ harnessIdle
    /\ variantsIdle

\* width := 80, replaced by what term.GetSize answers when it is positive
GetSizeB ==
    /\ pc = "sorted"
    /\ \E a \in TermAnswersB :
          width' = IF ~a.err /\ a.w > 0 THEN a.w ELSE 80
    /\ pc' = "render"
    /\ UNCHANGED <<args, dirents, showAll, filesOnly, target, dirs, files,
                   stdout, stderr, exitCode, reads, harnessVars, variantVars>>

\* What a rendering leaves behind: its lines and the footer when it ran to
\* completion; the lines printed so far and the runtime's exit with code 2
\* when a call panicked.  lay logs the calls of truncate and strings.Repeat.
FinishB(r) ==
    /\ stdout' = IF r.ok THEN r.lines \o printFooterB(Len(dirs), Len(files)) ELSE r.lines
    /\ stderr' = IF r.ok THEN << >> ELSE <<[kind |-> "panic"]>>
    /\ exitCode' = IF r.ok THEN 0 ELSE 2
    /\ pc' = IF r.ok THEN "done" ELSE "panic"
    /\ lay' = r.calls
    /\ UNCHANGED <<args, dirents, showAll, filesOnly, target, dirs, files, width,
                   reads, harnessVars, cap, env, config, before, runs, writes>>

\* if filesOnly || len(dirs) == 0 { renderSingle(files, "files", width) ... }
RenderFilesB ==
    /\ pc = "render"
    /\ filesOnly \/ Len(dirs) = 0
    /\ FinishB(renderSingle(files, "files", width))

\* if len(files) == 0 { renderSingle(dirs, "dirs", width) ... }
RenderDirsB ==
    /\ pc = "render"
    /\ ~(filesOnly \/ Len(dirs) = 0)
    /\ Len(files) = 0
    /\ FinishB(renderSingle(dirs, "dirs", width))

RenderTwoB ==
    /\ pc = "render"
    /\ ~(filesOnly \/ Len(dirs) = 0)
    /\ Len(files) # 0
    /\ FinishB(sideBySide(dirs, files, width))

NextB == GetSizeB \/ RenderFilesB \/ RenderDirsB \/ RenderTwoB

SpecB == InitB /\ [][NextB]_vars

\* Every call of strings.Repeat gets a count of 0 or more: the rule widths
\* are floored at 2, the gap is 4 and padToWidth pads only a shorter line.
C23_RepeatCounts ==
    \A k \in 1..Len(lay) : lay[k].fn = "Repeat" => repeatOK(lay[k].arg)

\* Every run on a terminal of 14 columns or more renders to completion,
\* and so does every single-panel run on 7 columns or more.
C23_WideEnough ==
    pc = "panic" => width <= (IF Len(dirs) > 0 /\ Len(files) > 0 THEN 13 ELSE 6)

\* C23: for every terminal width w >= 1 and every set of entry names the
\* borderless variant renders to completion: truncate is never called with
\* a limit whose slice bound max-1 is negative or above len(s), and
\* strings.Repeat never with a negative count, in the single-panel and in
\* the side-by-side mode.
C23_NoPanic ==
    /\ pc # "panic"
    /\ \A k \in 1..Len(lay) :
           /\ lay[k].fn = "truncate" =>
                  (lay[k].len <= lay[k].arg \/ sliceOK(lay[k].len, lay[k].arg - 1))
           /\ lay[k].fn = "Repeat" => repeatOK(lay[k].arg)

====
